---- MODULE Spec2Model ----
(***************************************************************************)
(* Model of the Mooer GE150 Pro Li host library: the 64-byte HID frame     *)
(* codec (protocol/framing.py), the command builders and response          *)
(* dispatcher (protocol/commands.py, protocol/parser.py), the 512-byte     *)
(* preset record (models/preset.py, models/effects.py), the backup file    *)
(* formats (models/file_formats.py), the USB connection's write and read   *)
(* calls (transport/usb_connection.py) and the preset and parameter tools  *)
(* with the connection and the preset cache they share (server.py).        *)
(*                                                                         *)
(* Byte strings are sequences over 0..255.  Python indexes from 0 and      *)
(* slices clip to the string; At and Slice below keep that behaviour.      *)
(***************************************************************************)
EXTENDS Integers, Sequences, FiniteSets, TLC

VARIABLES
    pc,         \* position of the scenario being run
    cmd,        \* codec: the command byte given to the builder
    payload,    \* codec: the payload given to the builder
    reports,    \* codec: the list of HID reports the builder returned
    rx,         \* codec: the list of reports handed to the parser
    frame,      \* codec: what the parser returned (a Frame or None)
    call,       \* commands: the function called and its arguments
    ret,        \* commands: what the call returned, or the exception it raised
    preset,     \* data model: the Preset being serialized
    encoded,    \* data model: what Preset.to_bytes returned or raised
    modbytes,   \* data model: what each module's to_bytes returned or raised
    decoded,    \* data model: the Preset that Preset.from_bytes returned
    connected,  \* server: whether _connection is an open USBConnection
    device,     \* server: the 512-byte record the pedal holds in each slot
    mbf_file,   \* server: the file at input_path, None if absent
    overwrite,  \* server: the overwrite argument of restore_backup
    presets,    \* server: the list import_mbf returned
    at_slot,    \* server: the index of the backup entry the loop is at
    stores,     \* server: the stores sent so far, in the order sent
    timeouts,   \* server: the reads the pedal did not answer with the record
    restored,   \* server: the local counter of restore_backup
    outcome,    \* server: what the tool returned or raised
    connection,     \* server: _connection, None or the USBConnection object
    preset_cache,   \* server: _preset_cache, a function from its keys
    sent,           \* transport: the I/O of the call, in order
    calls           \* server: how many tool calls have been made

codecVars == <<cmd, payload, rx>>

commandVars == <<call, ret>>

presetVars == <<preset, encoded, modbytes, decoded>>

serverVars ==
    <<connected, device, mbf_file, overwrite, presets, at_slot, stores, timeouts,
      restored, outcome>>

toolVars == <<connection, preset_cache, sent, calls>>

vars ==
    <<pc, reports, frame, codecVars, commandVars, presetVars, serverVars, toolVars>>

\* what the frame codec scenarios leave alone
notCodec == <<commandVars, presetVars, serverVars, toolVars>>

\* what the command scenarios leave alone
notCommands == <<codecVars, presetVars, serverVars, toolVars>>

\* what the data model scenarios leave alone
notPreset == <<reports, frame, codecVars, commandVars, serverVars, toolVars>>

\* what the server scenarios leave alone
notServer == <<reports, frame, codecVars, commandVars, presetVars, toolVars>>

----------------------------------------------------------------------------
(* Python helpers *)

Min(a, b) == IF a < b THEN a ELSE b

Max(a, b) == IF a > b THEN a ELSE b

\* data[i], 0-based
At(s, i) == s[i + 1]

\* data[lo:hi] for 0 <= lo, clipped to the string like a Python slice
Slice(s, lo, hi) == SubSeq(s, lo + 1, Min(hi, Len(s)))

\* b"\x00" * n (empty when n <= 0)
Zeros(n) == [i \in 1..Max(n, 0) |-> 0]

\* int.from_bytes(s, "little"); 0 for the empty string
RECURSIVE from_bytes_little(_)
from_bytes_little(s) ==
    IF Len(s) = 0 THEN 0 ELSE s[1] + 256 * from_bytes_little(Tail(s))

\* n.to_bytes(2, "little"), for 0 <= n <= 65535
to_bytes_2_little(n) == <<n % 256, (n \div 256) % 256>>

----------------------------------------------------------------------------
(* utils/crc.py: crc16.  The 16-bit checksum over command + payload: the   *)
(* CCITT polynomial 0x1021, register started at 0, result inverted, which  *)
(* gives crc16(b"") = 0xFFFF and crc16(A6 02) = 0x6865.                    *)

ToggleBit(x, k) == IF (x \div (2 ^ k)) % 2 = 1 THEN x - 2 ^ k ELSE x + 2 ^ k

\* one message bit shifted into the register
crc16_bit(c, bit) ==
    LET top == c \div 32768
        sh  == (c * 2) % 65536
    IN  IF top # bit THEN ToggleBit(ToggleBit(sh + 1, 5), 12) ELSE sh

\* the eight bits of byte b, most significant first; the register is a 16-bit value
RECURSIVE crc16_byte(_, _, _)
crc16_byte(c, b, k) ==
    IF k < 0 \/ c > 65535 THEN c
    ELSE crc16_byte(crc16_bit(c, (b \div (2 ^ k)) % 2), b, k - 1)

\* the register after bytes s[lo..hi] (1-based), halving to keep recursion shallow
RECURSIVE crc16_range(_, _, _, _)
crc16_range(s, lo, hi, c) ==
    IF lo > hi \/ c > 65535 THEN c
    ELSE IF lo = hi THEN crc16_byte(c, s[lo], 7)
    ELSE LET mid == (lo + hi) \div 2
         IN  crc16_range(s, mid + 1, hi, crc16_range(s, lo, mid, c))

crc16(s) == 65535 - crc16_range(s, 1, Len(s), 0)

----------------------------------------------------------------------------
(* protocol/framing.py *)

PREAMBLE == <<170, 85>>

HID_REPORT_SIZE == 64

None == [tag |-> "None"]

NoCall == [fn |-> "none"]

\* a call that returned v, and a call that raised exception exc
Ok(v) == [tag |-> "ok", value |-> v]

Raise(exc) == [tag |-> "raise", exc |-> exc]

Frame(command, pl) == [tag |-> "Frame", command |-> command, payload |-> pl]

\* the frame with the body size written high byte first
frame_bytes_big_endian_size(command, pl) ==
    LET body     == <<command>> \o pl
        size     == <<Len(body) \div 256, Len(body) % 256>>
        checksum == to_bytes_2_little(crc16(body))
    IN  PREAMBLE \o size \o body \o checksum

\* PREAMBLE + size + body + checksum, as build_frame lays it out
frame_bytes(command, pl) ==
    LET body     == <<command>> \o pl
        size     == to_bytes_2_little(Len(body))
        checksum == to_bytes_2_little(crc16(body))
    IN  PREAMBLE \o size \o body \o checksum

\* bytes([hid_size]) needs hid_size <= 255, to_bytes(2) needs len(body) <= 65535
build_frame_raises(command, pl) ==
    \/ command \notin 0..255
    \/ 1 + Len(pl) > 65535
    \/ Len(pl) + 7 > 255

build_frame(command, pl) ==
    LET fr       == frame_bytes(command, pl)
        hid_size == Len(fr)
    IN  <<hid_size>> \o fr \o Zeros(HID_REPORT_SIZE - 1 - Len(fr))

\* PREAMBLE + size_bytes + body + checksum, as build_chunked_frames lays it out
full_message(command, pl) ==
    LET body       == <<command>> \o pl
        size_bytes == to_bytes_2_little(Len(body))
        checksum   == to_bytes_2_little(crc16(body))
    IN  PREAMBLE \o size_bytes \o body \o checksum

\* the chunking loop advancing by 64 while slicing 63 bytes
chunk_reports_stride64(msg) ==
    [k \in 1..((Len(msg) + 63) \div 64) |->
        LET chunk == Slice(msg, 64 * (k - 1), 64 * (k - 1) + 63)
        IN  <<Len(chunk)>> \o chunk \o Zeros(63 - Len(chunk))]

\* the while loop of build_chunked_frames: one report per 63-byte slice
chunk_reports(msg) ==
    [k \in 1..((Len(msg) + 62) \div 63) |->
        LET chunk == Slice(msg, 63 * (k - 1), 63 * (k - 1) + 63)
        IN  <<Len(chunk)>> \o chunk \o Zeros(63 - Len(chunk))]

build_chunked_frames_raises(command, pl) ==
    \/ command \notin 0..255
    \/ 1 + Len(pl) > 65535

\* the short path returning the length-prefixed message without padding
build_chunked_frames_unpadded(command, pl) ==
    LET msg == full_message(command, pl)
    IN  IF Len(msg) <= HID_REPORT_SIZE - 1
        THEN <<(<<Len(msg)>> \o msg)>>
        ELSE chunk_reports(msg)

build_chunked_frames(command, pl) ==
    LET msg == full_message(command, pl)
    IN  IF Len(msg) <= HID_REPORT_SIZE - 1
        THEN <<build_frame(command, pl)>>
        ELSE chunk_reports(msg)

\* parse_frame with the payload slice running one byte too far
parse_frame_long_slice(data) ==
    IF Len(data) < 8 THEN None
    ELSE IF At(data, 0) < 7 THEN None
    ELSE IF Slice(data, 1, 3) # PREAMBLE THEN None
    ELSE LET body_size == from_bytes_little(Slice(data, 3, 5))
         IN  IF body_size < 1 THEN None
             ELSE LET command  == At(data, 5)
                      pl       == Slice(data, 6, 6 + body_size)
                      body     == Slice(data, 5, 5 + body_size)
                      expected == from_bytes_little(
                                      Slice(data, 5 + body_size, 5 + body_size + 2))
                  IN  IF crc16(body) # expected THEN None
                      ELSE Frame(command, pl)

\* parse_frame without the test of the length prefix in byte 0
parse_frame_no_hid_size_check(data) ==
    IF Len(data) < 8 THEN None
    ELSE IF Slice(data, 1, 3) # PREAMBLE THEN None
    ELSE LET body_size == from_bytes_little(Slice(data, 3, 5))
         IN  IF body_size < 1 THEN None
             ELSE LET command  == At(data, 5)
                      pl       == Slice(data, 6, 5 + body_size)
                      body     == Slice(data, 5, 5 + body_size)
                      expected == from_bytes_little(
                                      Slice(data, 5 + body_size, 5 + body_size + 2))
                  IN  IF crc16(body) # expected THEN None
                      ELSE Frame(command, pl)

parse_frame(data) ==
    IF Len(data) < 8 THEN None
    ELSE IF At(data, 0) < 7 THEN None
    ELSE IF Slice(data, 1, 3) # PREAMBLE THEN None
    ELSE LET body_size == from_bytes_little(Slice(data, 3, 5))
         IN  IF body_size < 1 THEN None
             ELSE LET command  == At(data, 5)
                      pl       == Slice(data, 6, 5 + body_size)
                      body     == Slice(data, 5, 5 + body_size)
                      expected == from_bytes_little(
                                      Slice(data, 5 + body_size, 5 + body_size + 2))
                  IN  IF crc16(body) # expected THEN None
                      ELSE Frame(command, pl)

\* the reassembly loop of parse_chunked_frames
RECURSIVE assemble(_)
assemble(rs) ==
    IF Len(rs) = 0 THEN <<>>
    ELSE LET report == Head(rs)
         IN  IF Len(report) < 1 THEN assemble(Tail(rs))
             ELSE Slice(report, 1, 1 + At(report, 0)) \o assemble(Tail(rs))

parse_chunked_frames(rs) ==
    LET assembled == assemble(rs)
    IN  IF Len(assembled) < 7 THEN None
        ELSE IF Slice(assembled, 0, 2) # PREAMBLE THEN None
        ELSE LET body_size == from_bytes_little(Slice(assembled, 2, 4))
             IN  IF body_size < 1 THEN None
                 ELSE LET command  == At(assembled, 4)
                          pl       == Slice(assembled, 5, 4 + body_size)
                          body     == Slice(assembled, 4, 4 + body_size)
                          expected == from_bytes_little(
                                          Slice(assembled, 4 + body_size,
                                                4 + body_size + 2))
                      IN  IF crc16(body) # expected THEN None
                          ELSE Frame(command, pl)

\* s[i] with i >= 0 raises IndexError when i is not below len(s)
index_raises(s, i) == i >= Len(s)

\* parse_frame indexes data[0] and data[5], both behind the length test
parse_frame_raises(data) ==
    /\ ~(Len(data) < 8)
    /\ (index_raises(data, 0) \/ index_raises(data, 5))

\* parse_chunked_frames indexes report[0] of each report that is not empty,
\* and assembled[4] behind the length test
parse_chunked_frames_raises(rs) ==
    \/ \E k \in 1..Len(rs) : ~(Len(rs[k]) < 1) /\ index_raises(rs[k], 0)
    \/ ~(Len(assemble(rs)) < 7) /\ index_raises(assemble(rs), 4)

----------------------------------------------------------------------------
(* protocol/commands.py *)

Command ==
    [IDENTIFY |-> 16, MENU |-> 130, PRESET |-> 131, PEDAL_ASSIGN_ALT |-> 132,
     CAB_MODELS |-> 133, FOOT_SWITCH |-> 137, FX |-> 144, DS_OD |-> 145,
     AMP |-> 147, CAB |-> 148, NS_GATE |-> 149, EQ |-> 150, MOD |-> 151,
     DELAY |-> 152, REVERB |-> 153, SYSTEM |-> 161, VOLUME |-> 162,
     PEDAL_ASSIGNMENT |-> 163, PATCH_ALTERNATE |-> 164, PATCH_SETTING |-> 165,
     ACTIVE_PATCH |-> 166, STORE_PATCH |-> 168, ACTIVE_PATCH_SETTING |-> 169,
     CABINET_UPLOAD |-> 225, AMP_UPLOAD |-> 226, AMP_MODELS |-> 227]

\* the bytes for which Command(byte) is a member of the enumeration
CommandValues == {Command[n] : n \in DOMAIN Command}

\* the map with the commands of the mod and delay modules exchanged
MODULE_COMMAND_MAP_mod_delay_exchanged ==
    [fx |-> Command.FX, od |-> Command.DS_OD, amp |-> Command.AMP,
     cab |-> Command.CAB, ns |-> Command.NS_GATE, eq |-> Command.EQ,
     mod |-> Command.DELAY, delay |-> Command.MOD, reverb |-> Command.REVERB]

MODULE_COMMAND_MAP ==
    [fx |-> Command.FX, od |-> Command.DS_OD, amp |-> Command.AMP,
     cab |-> Command.CAB, ns |-> Command.NS_GATE, eq |-> Command.EQ,
     mod |-> Command.MOD, delay |-> Command.DELAY, reverb |-> Command.REVERB]

\* bytes([...]) raises ValueError unless every element is in range(0, 256)
IsByte(x) == x \in 0..255

build_command(command, pl) == build_frame(command, pl)

build_select_preset(slot) ==
    IF ~(0 <= slot /\ slot <= 199) THEN Raise("ValueError")
    ELSE Ok(build_command(Command.ACTIVE_PATCH, <<slot>>))

build_read_preset(slot) ==
    IF ~(0 <= slot /\ slot <= 199) THEN Raise("ValueError")
    ELSE Ok(build_command(Command.PRESET, <<slot>>))

\* build_store_preset accepting any record of at least 512 bytes
build_store_preset_min_size(slot, preset_data) ==
    IF ~(0 <= slot /\ slot <= 199) THEN Raise("ValueError")
    ELSE IF Len(preset_data) < 512 THEN Raise("ValueError")
    ELSE Ok(build_chunked_frames(Command.STORE_PATCH, <<slot>> \o preset_data))

build_store_preset(slot, preset_data) ==
    IF ~(0 <= slot /\ slot <= 199) THEN Raise("ValueError")
    ELSE IF Len(preset_data) # 512 THEN Raise("ValueError")
    ELSE Ok(build_chunked_frames(Command.STORE_PATCH, <<slot>> \o preset_data))

\* build_effect_param without the value range test, the value reduced to a byte
build_effect_param_no_range(module, param_index, value) ==
    IF module \notin DOMAIN MODULE_COMMAND_MAP THEN Raise("ValueError")
    ELSE IF ~IsByte(param_index) THEN Raise("ValueError")
    ELSE Ok(build_command(MODULE_COMMAND_MAP[module], <<param_index, value % 256>>))

build_effect_param(module, param_index, value) ==
    IF module \notin DOMAIN MODULE_COMMAND_MAP THEN Raise("ValueError")
    ELSE IF ~(0 <= value /\ value <= 255) THEN Raise("ValueError")
    ELSE IF ~IsByte(param_index) THEN Raise("ValueError")
    ELSE Ok(build_command(MODULE_COMMAND_MAP[module], <<param_index, value>>))

build_toggle_effect(module, enabled) ==
    build_effect_param(module, 1, IF enabled THEN 1 ELSE 0)

build_set_volume(volume) ==
    IF ~(0 <= volume /\ volume <= 100) THEN Raise("ValueError")
    ELSE Ok(build_command(Command.VOLUME, <<volume>>))

----------------------------------------------------------------------------
(* protocol/parser.py *)

IdentifyResponse(firmware, device_name, raw) ==
    [tag |-> "IdentifyResponse", firmware |-> firmware,
     device_name |-> device_name, raw |-> raw]

PresetResponse(slot, data) == [tag |-> "PresetResponse", slot |-> slot, data |-> data]

ActivePatchResponse(slot) == [tag |-> "ActivePatchResponse", slot |-> slot]

VolumeResponse(volume) == [tag |-> "VolumeResponse", volume |-> volume]

SystemResponse(data) == [tag |-> "SystemResponse", data |-> data]

\* bytes.split(b"\x00")[0]: the bytes before the first zero byte
RECURSIVE until_nul(_)
until_nul(s) ==
    IF Len(s) = 0 \/ s[1] = 0 THEN <<>> ELSE <<s[1]>> \o until_nul(Tail(s))

\* bytes.decode("ascii", errors="replace"): code points, U+FFFD for a byte >= 128
decode_ascii(s) == [i \in 1..Len(s) |-> IF s[i] < 128 THEN s[i] ELSE 65533]

\* the text "unknown", as code points
UNKNOWN == <<117, 110, 107, 110, 111, 119, 110>>

\* the nonzero firmware digits; the text "unknown" is the empty list of digits
firmware_parts(fw) == SelectSeq(fw, LAMBDA b : b # 0)

parse_identify(fr) ==
    IF fr.command # Command.IDENTIFY THEN None
    ELSE IF Len(fr.payload) < 16
         THEN IdentifyResponse(<<>>, UNKNOWN, fr.payload)
         ELSE IdentifyResponse(firmware_parts(Slice(fr.payload, 0, 5)),
                               decode_ascii(until_nul(Slice(fr.payload, 5, 16))),
                               fr.payload)

\* parse_preset_response leaving the slot byte in the data
parse_preset_response_keeps_slot(fr) ==
    IF fr.command # Command.PRESET THEN None
    ELSE IF Len(fr.payload) < 1 THEN None
    ELSE PresetResponse(At(fr.payload, 0), fr.payload)

parse_preset_response(fr) ==
    IF fr.command # Command.PRESET THEN None
    ELSE IF Len(fr.payload) < 1 THEN None
    ELSE PresetResponse(At(fr.payload, 0), Slice(fr.payload, 1, Len(fr.payload)))

parse_active_patch(fr) ==
    IF fr.command # Command.ACTIVE_PATCH THEN None
    ELSE IF Len(fr.payload) < 1 THEN None
    ELSE ActivePatchResponse(At(fr.payload, 0))

parse_volume(fr) ==
    IF fr.command # Command.VOLUME THEN None
    ELSE IF Len(fr.payload) < 1 THEN None
    ELSE VolumeResponse(At(fr.payload, 0))

parse_system(fr) ==
    IF fr.command # Command.SYSTEM THEN None
    ELSE SystemResponse(fr.payload)

\* the parsers dictionary of parse_response, applied
registered_parser(fr) ==
    CASE fr.command = Command.IDENTIFY     -> parse_identify(fr)
      [] fr.command = Command.PRESET       -> parse_preset_response(fr)
      [] fr.command = Command.ACTIVE_PATCH -> parse_active_patch(fr)
      [] fr.command = Command.VOLUME       -> parse_volume(fr)
      [] fr.command = Command.SYSTEM       -> parse_system(fr)
      [] OTHER                             -> None

\* Command(frame.command) raises ValueError for a byte outside the enumeration
parse_response(fr) ==
    IF fr.command \notin CommandValues THEN Raise("ValueError")
    ELSE LET result == registered_parser(fr)
         IN  IF result # None THEN Ok(result) ELSE Ok(fr)

----------------------------------------------------------------------------
(* models/effects.py.  A module is a record of its dataclass fields; text  *)
(* is a sequence of code points.                                           *)

\* bytes([...]): ValueError unless every element is in range(0, 256)
bytes_of(list) ==
    IF \A i \in 1..Len(list) : IsByte(list[i]) THEN Ok(list) ELSE Raise("ValueError")

\* bytes([...]) + tail
bytes_plus(list, tail) ==
    IF bytes_of(list).tag = "raise" THEN bytes_of(list) ELSE Ok(list \o tail)

\* data + b"\x00" * (size - len(data)) when data is shorter than size
\* the missing bytes supplied in front of the buffer instead of behind it
pad_to_left(data, size) == IF Len(data) < size THEN Zeros(size - Len(data)) \o data ELSE data

pad_to(data, size) == IF Len(data) < size THEN data \o Zeros(size - Len(data)) ELSE data

FXModule_SIZE == 13

FXModule_to_bytes(m) ==
    bytes_plus(<<m.header, m.enabled, m.type, m.q, m.position, m.peak, m.level>>,
               Slice(m.reserved, 0, 6))

FXModule_from_bytes(data) ==
    LET d == pad_to(data, FXModule_SIZE)
    IN  [header |-> At(d, 0), enabled |-> At(d, 1), type |-> At(d, 2), q |-> At(d, 3), position |-> At(d, 4), peak |-> At(d, 5), level |-> At(d, 6),
         reserved |-> Slice(d, 7, 13)]

DistortionModule_SIZE == 11

DistortionModule_to_bytes(m) ==
    bytes_plus(<<m.header, m.enabled, m.type, m.volume, m.tone, m.gain>>,
               Slice(m.reserved, 0, 5))

DistortionModule_from_bytes(data) ==
    LET d == pad_to(data, DistortionModule_SIZE)
    IN  [header |-> At(d, 0), enabled |-> At(d, 1), type |-> At(d, 2), volume |-> At(d, 3), tone |-> At(d, 4), gain |-> At(d, 5),
         reserved |-> Slice(d, 6, 11)]

AmpModule_SIZE == 17

AmpModule_to_bytes(m) ==
    bytes_plus(<<m.header, m.enabled, m.type, m.amp_gain, m.bass, m.mid, m.treble, m.presence, m.master>>,
               Slice(m.reserved, 0, 8))

AmpModule_from_bytes(data) ==
    LET d == pad_to(data, AmpModule_SIZE)
    IN  [header |-> At(d, 0), enabled |-> At(d, 1), type |-> At(d, 2), amp_gain |-> At(d, 3), bass |-> At(d, 4), mid |-> At(d, 5), treble |-> At(d, 6), presence |-> At(d, 7), master |-> At(d, 8),
         reserved |-> Slice(d, 9, 17)]

CabModule_SIZE == 13

CabModule_to_bytes(m) ==
    bytes_plus(<<m.header, m.enabled, m.type, m.mic, m.center, m.distance, m.tube>>,
               Slice(m.reserved, 0, 6))

CabModule_from_bytes(data) ==
    LET d == pad_to(data, CabModule_SIZE)
    IN  [header |-> At(d, 0), enabled |-> At(d, 1), type |-> At(d, 2), mic |-> At(d, 3), center |-> At(d, 4), distance |-> At(d, 5), tube |-> At(d, 6),
         reserved |-> Slice(d, 7, 13)]

NoiseGateModule_SIZE == 11

NoiseGateModule_to_bytes(m) ==
    bytes_plus(<<m.header, m.enabled, m.type, m.attack, m.release, m.threshold>>,
               Slice(m.reserved, 0, 5))

NoiseGateModule_from_bytes(data) ==
    LET d == pad_to(data, NoiseGateModule_SIZE)
    IN  [header |-> At(d, 0), enabled |-> At(d, 1), type |-> At(d, 2), attack |-> At(d, 3), release |-> At(d, 4), threshold |-> At(d, 5),
         reserved |-> Slice(d, 6, 11)]

ModulationModule_SIZE == 15

ModulationModule_to_bytes(m) ==
    bytes_plus(<<m.header, m.enabled, m.type, m.rate, m.level, m.depth, m.param4, m.param5>>,
               Slice(m.reserved, 0, 7))

ModulationModule_from_bytes(data) ==
    LET d == pad_to(data, ModulationModule_SIZE)
    IN  [header |-> At(d, 0), enabled |-> At(d, 1), type |-> At(d, 2), rate |-> At(d, 3), level |-> At(d, 4), depth |-> At(d, 5), param4 |-> At(d, 6), param5 |-> At(d, 7),
         reserved |-> Slice(d, 8, 15)]

ReverbModule_SIZE == 13

ReverbModule_to_bytes(m) ==
    bytes_plus(<<m.header, m.enabled, m.type, m.pre_delay, m.level, m.decay, m.tone>>,
               Slice(m.reserved, 0, 6))

ReverbModule_from_bytes(data) ==
    LET d == pad_to(data, ReverbModule_SIZE)
    IN  [header |-> At(d, 0), enabled |-> At(d, 1), type |-> At(d, 2), pre_delay |-> At(d, 3), level |-> At(d, 4), decay |-> At(d, 5), tone |-> At(d, 6),
         reserved |-> Slice(d, 7, 13)]

EQModule_SIZE == 23

EQModule_to_bytes(m) ==
    bytes_plus(<<m.header, m.enabled, m.type>>
                   \o Slice(m.bands, 0, 6) \o Slice(m.bands_extra, 0, 6),
               Slice(m.reserved, 0, 8))

EQModule_from_bytes(data) ==
    LET d == pad_to(data, EQModule_SIZE)
    IN  [header |-> At(d, 0), enabled |-> At(d, 1), type |-> At(d, 2),
         bands |-> Slice(d, 3, 9), bands_extra |-> Slice(d, 9, 15),
         reserved |-> Slice(d, 15, 23)]

DelayModule_SIZE == 17

\* DelayModule.to_bytes with the two bytes of time_ms exchanged
DelayModule_to_bytes_big_endian(m) ==
    LET time_lo == m.time_ms % 256
        time_hi == (m.time_ms \div 256) % 256
    IN  bytes_plus(<<m.header, m.enabled, m.type, m.level, m.feedback,
                     time_hi, time_lo, m.subdivision, m.param5, m.param6>>,
                   Slice(m.reserved, 0, 7))

\* time_ms & 0xFF and (time_ms >> 8) & 0xFF
DelayModule_to_bytes(m) ==
    LET time_lo == m.time_ms % 256
        time_hi == (m.time_ms \div 256) % 256
    IN  bytes_plus(<<m.header, m.enabled, m.type, m.level, m.feedback,
                     time_lo, time_hi, m.subdivision, m.param5, m.param6>>,
                   Slice(m.reserved, 0, 7))

DelayModule_from_bytes(data) ==
    LET d == pad_to(data, DelayModule_SIZE)
        time_ms == At(d, 5) + 256 * At(d, 6)
    IN  [header |-> At(d, 0), enabled |-> At(d, 1), type |-> At(d, 2),
         level |-> At(d, 3), feedback |-> At(d, 4), time_ms |-> time_ms,
         subdivision |-> At(d, 7), param5 |-> At(d, 8), param6 |-> At(d, 9),
         reserved |-> Slice(d, 10, 17)]

\* MODULE_CLASSES[name].from_bytes(data)
module_from_bytes(name, data) ==
    CASE name = "fx"     -> FXModule_from_bytes(data)
      [] name = "od"     -> DistortionModule_from_bytes(data)
      [] name = "amp"    -> AmpModule_from_bytes(data)
      [] name = "cab"    -> CabModule_from_bytes(data)
      [] name = "ns"     -> NoiseGateModule_from_bytes(data)
      [] name = "eq"     -> EQModule_from_bytes(data)
      [] name = "mod"    -> ModulationModule_from_bytes(data)
      [] name = "delay"  -> DelayModule_from_bytes(data)
      [] name = "reverb" -> ReverbModule_from_bytes(data)

\* MODULE_CLASSES[name].SIZE
module_size(name) ==
    CASE name = "fx"     -> FXModule_SIZE
      [] name = "od"     -> DistortionModule_SIZE
      [] name = "amp"    -> AmpModule_SIZE
      [] name = "cab"    -> CabModule_SIZE
      [] name = "ns"     -> NoiseGateModule_SIZE
      [] name = "eq"     -> EQModule_SIZE
      [] name = "mod"    -> ModulationModule_SIZE
      [] name = "delay"  -> DelayModule_SIZE
      [] name = "reverb" -> ReverbModule_SIZE

----------------------------------------------------------------------------
(* models/preset.py *)

PRESET_SIZE == 512

OFF_EFFECT_ORDER == 0

OFF_SIZE == 10

OFF_NAME == 12

OFF_FX == 26

OFF_OD == 39

OFF_AMP == 50

OFF_CAB == 67

OFF_NS == 80

OFF_EQ == 91

OFF_MOD == 114

OFF_DELAY == 129

OFF_REVERB == 146

MODULE_NAMES == <<"fx", "od", "amp", "cab", "ns", "eq", "mod", "delay", "reverb">>

\* the encoding keeping every code point below 256 as its own byte
encode_latin1(name) == [i \in 1..Len(name) |-> IF name[i] < 256 THEN name[i] ELSE 63]

\* str.encode("ascii", errors="replace"): "?" for a code point beyond ASCII
encode_ascii(name) == [i \in 1..Len(name) |-> IF name[i] < 128 THEN name[i] ELSE 63]

\* buf[lo:hi] = bs on a bytearray: the slice is replaced, whatever the length of bs
SliceAssign(buf, lo, hi, bs) == Slice(buf, 0, lo) \o bs \o Slice(buf, hi, Len(buf))

\* the nine module.to_bytes() calls of Preset.to_bytes, in the order made
module_bytes(p) ==
    <<FXModule_to_bytes(p.fx), DistortionModule_to_bytes(p.od),
      AmpModule_to_bytes(p.amp), CabModule_to_bytes(p.cab),
      NoiseGateModule_to_bytes(p.ns), EQModule_to_bytes(p.eq),
      ModulationModule_to_bytes(p.mod), DelayModule_to_bytes(p.delay),
      ReverbModule_to_bytes(p.reverb)>>

\* Preset.to_bytes writing the size field low byte first
Preset_to_bytes_size_little_endian(p) ==
    LET order      == Slice(p.effect_order, 0, 10)
        buf1       == [i \in 1..PRESET_SIZE |->
                          IF i <= Len(order) THEN order[i] % 256 ELSE 0]
        data_size  == PRESET_SIZE - OFF_SIZE - 2
        buf2       == [buf1 EXCEPT ![OFF_SIZE + 1] = data_size % 256,
                                   ![OFF_SIZE + 2] = (data_size \div 256) % 256]
        name_bytes == Slice(encode_ascii(p.name), 0, 14)
        buf3       == SliceAssign(buf2, OFF_NAME, OFF_NAME + Len(name_bytes), name_bytes)
        mb         == module_bytes(p)
    IN  IF \E k \in 1..Len(mb) : mb[k].tag = "raise" THEN Raise("ValueError")
        ELSE LET b_fx  == SliceAssign(buf3, OFF_FX, OFF_FX + FXModule_SIZE, mb[1].value)
                 b_od  == SliceAssign(b_fx, OFF_OD, OFF_OD + DistortionModule_SIZE, mb[2].value)
                 b_amp == SliceAssign(b_od, OFF_AMP, OFF_AMP + AmpModule_SIZE, mb[3].value)
                 b_cab == SliceAssign(b_amp, OFF_CAB, OFF_CAB + CabModule_SIZE, mb[4].value)
                 b_ns  == SliceAssign(b_cab, OFF_NS, OFF_NS + NoiseGateModule_SIZE, mb[5].value)
                 b_eq  == SliceAssign(b_ns, OFF_EQ, OFF_EQ + EQModule_SIZE, mb[6].value)
                 b_mod == SliceAssign(b_eq, OFF_MOD, OFF_MOD + ModulationModule_SIZE, mb[7].value)
                 b_dly == SliceAssign(b_mod, OFF_DELAY, OFF_DELAY + DelayModule_SIZE, mb[8].value)
                 b_rev == SliceAssign(b_dly, OFF_REVERB, OFF_REVERB + ReverbModule_SIZE, mb[9].value)
             IN  Ok(b_rev)

Preset_to_bytes(p) ==
    LET order      == Slice(p.effect_order, 0, 10)
        buf1       == [i \in 1..PRESET_SIZE |->
                          IF i <= Len(order) THEN order[i] % 256 ELSE 0]
        data_size  == PRESET_SIZE - OFF_SIZE - 2
        buf2       == [buf1 EXCEPT ![OFF_SIZE + 1] = (data_size \div 256) % 256,
                                   ![OFF_SIZE + 2] = data_size % 256]
        name_bytes == Slice(encode_ascii(p.name), 0, 14)
        buf3       == SliceAssign(buf2, OFF_NAME, OFF_NAME + Len(name_bytes), name_bytes)
        mb         == module_bytes(p)
    IN  IF \E k \in 1..Len(mb) : mb[k].tag = "raise" THEN Raise("ValueError")
        ELSE LET b_fx  == SliceAssign(buf3, OFF_FX, OFF_FX + FXModule_SIZE, mb[1].value)
                 b_od  == SliceAssign(b_fx, OFF_OD, OFF_OD + DistortionModule_SIZE, mb[2].value)
                 b_amp == SliceAssign(b_od, OFF_AMP, OFF_AMP + AmpModule_SIZE, mb[3].value)
                 b_cab == SliceAssign(b_amp, OFF_CAB, OFF_CAB + CabModule_SIZE, mb[4].value)
                 b_ns  == SliceAssign(b_cab, OFF_NS, OFF_NS + NoiseGateModule_SIZE, mb[5].value)
                 b_eq  == SliceAssign(b_ns, OFF_EQ, OFF_EQ + EQModule_SIZE, mb[6].value)
                 b_mod == SliceAssign(b_eq, OFF_MOD, OFF_MOD + ModulationModule_SIZE, mb[7].value)
                 b_dly == SliceAssign(b_mod, OFF_DELAY, OFF_DELAY + DelayModule_SIZE, mb[8].value)
                 b_rev == SliceAssign(b_dly, OFF_REVERB, OFF_REVERB + ReverbModule_SIZE, mb[9].value)
             IN  Ok(b_rev)

Preset_from_bytes(data) ==
    LET d == pad_to(data, PRESET_SIZE)
    IN  [effect_order |-> Slice(d, OFF_EFFECT_ORDER, OFF_EFFECT_ORDER + 10),
         name   |-> decode_ascii(until_nul(Slice(d, OFF_NAME, OFF_NAME + 14))),
         fx     |-> FXModule_from_bytes(Slice(d, OFF_FX, OFF_FX + FXModule_SIZE)),
         od     |-> DistortionModule_from_bytes(Slice(d, OFF_OD, OFF_OD + DistortionModule_SIZE)),
         amp    |-> AmpModule_from_bytes(Slice(d, OFF_AMP, OFF_AMP + AmpModule_SIZE)),
         cab    |-> CabModule_from_bytes(Slice(d, OFF_CAB, OFF_CAB + CabModule_SIZE)),
         ns     |-> NoiseGateModule_from_bytes(Slice(d, OFF_NS, OFF_NS + NoiseGateModule_SIZE)),
         eq     |-> EQModule_from_bytes(Slice(d, OFF_EQ, OFF_EQ + EQModule_SIZE)),
         mod    |-> ModulationModule_from_bytes(Slice(d, OFF_MOD, OFF_MOD + ModulationModule_SIZE)),
         delay  |-> DelayModule_from_bytes(Slice(d, OFF_DELAY, OFF_DELAY + DelayModule_SIZE)),
         reverb |-> ReverbModule_from_bytes(Slice(d, OFF_REVERB, OFF_REVERB + ReverbModule_SIZE))]

----------------------------------------------------------------------------
(* Frame codec scenarios: a builder is applied to a drawn (cmd, payload),  *)
(* and the reports it returned are handed to a parser as emitted, with one *)
(* report dropped, or with two reports exchanged.                          *)

MaxPayloadLen == 64

\* the data model variables while no preset is being serialized
PresetIdle ==
    /\ preset = None
    /\ encoded = None
    /\ modbytes = <<>>
    /\ decoded = None

\* the state of the module globals of server.py after import, and no I/O yet
ToolsIdle ==
    /\ connection = None
    /\ preset_cache = <<>>
    /\ sent = <<>>
    /\ calls = 0

\* the server variables while no tool is being called
ServerIdle ==
    /\ connected = FALSE
    /\ device = <<>>
    /\ mbf_file = None
    /\ overwrite = FALSE
    /\ presets = <<>>
    /\ at_slot = 0
    /\ stores = <<>>
    /\ timeouts = 0
    /\ restored = 0
    /\ outcome = None

\* longer payloads: three reports, and the 200-byte payload of test_framing.py
LongLens == {120, 200}

Cmds == {0, 131, 166, 255}

Pattern(n, a, st) == [i \in 1..n |-> (a + st * (i - 1)) % 256]

Seeds == {<<0, 0>>, <<107, 5>>}

\* a payload whose bytes from offset 58 on (the start of the second report)
\* are themselves an encoded message
EmbeddedPayloads ==
    {Pattern(58, 0, 0) \o full_message(16, ipl) : ipl \in {<<>>, <<2>>}}

Payloads ==
    {Pattern(n, sd[1], sd[2]) : n \in (0..MaxPayloadLen) \cup LongLens, sd \in Seeds}
        \cup EmbeddedPayloads

RemoveAt(s, i) == SubSeq(s, 1, i - 1) \o SubSeq(s, i + 1, Len(s))

Swap(s, i, j) ==
    [k \in 1..Len(s) |-> IF k = i THEN s[j] ELSE IF k = j THEN s[i] ELSE s[k]]

Init ==
    /\ pc = "init"
    /\ cmd \in Cmds
    /\ payload \in Payloads
    /\ reports = <<>>
    /\ rx = <<>>
    /\ frame = None
    /\ call = NoCall
    /\ ret = None
    /\ PresetIdle
    /\ ServerIdle
    /\ ToolsIdle

BuildFrame ==
    /\ pc = "init"
    /\ IF build_frame_raises(cmd, payload)
       THEN pc' = "raised" /\ reports' = <<>>
       ELSE pc' = "built_single" /\ reports' = <<build_frame(cmd, payload)>>
    /\ UNCHANGED <<cmd, payload, rx, frame>>
    /\ UNCHANGED notCodec

BuildChunked ==
    /\ pc = "init"
    /\ IF build_chunked_frames_raises(cmd, payload)
       THEN pc' = "raised" /\ reports' = <<>>
       ELSE pc' = "built_chunked" /\ reports' = build_chunked_frames(cmd, payload)
    /\ UNCHANGED <<cmd, payload, rx, frame>>
    /\ UNCHANGED notCodec

ParseFrame ==
    /\ pc = "built_single"
    /\ rx' = reports
    /\ frame' = parse_frame(reports[1])
    /\ pc' = "parsed_single"
    /\ UNCHANGED <<cmd, payload, reports>>
    /\ UNCHANGED notCodec

ParseChunked ==
    /\ pc = "built_chunked"
    /\ rx' = reports
    /\ frame' = parse_chunked_frames(reports)
    /\ pc' = "parsed_chunked"
    /\ UNCHANGED <<cmd, payload, reports>>
    /\ UNCHANGED notCodec

\* the caller loses one report of a multi-report message
ParseDropped ==
    /\ pc = "built_chunked"
    /\ Len(reports) >= 2
    /\ \E i \in 1..Len(reports) :
          /\ rx' = RemoveAt(reports, i)
          /\ frame' = parse_chunked_frames(RemoveAt(reports, i))
    /\ pc' = "parsed_dropped"
    /\ UNCHANGED <<cmd, payload, reports>>
    /\ UNCHANGED notCodec

\* the caller hands over the reports in an order that differs from emission
ParseReordered ==
    /\ pc = "built_chunked"
    /\ Len(reports) >= 2
    /\ \E i \in 1..Len(reports), j \in 1..Len(reports) :
          /\ i < j
          /\ Swap(reports, i, j) # reports
          /\ rx' = Swap(reports, i, j)
          /\ frame' = parse_chunked_frames(Swap(reports, i, j))
    /\ pc' = "parsed_reordered"
    /\ UNCHANGED <<cmd, payload, reports>>
    /\ UNCHANGED notCodec

Next ==
    \/ BuildFrame
    \/ BuildChunked
    \/ ParseFrame
    \/ ParseChunked
    \/ ParseDropped
    \/ ParseReordered

Spec == Init /\ [][Next]_vars

----------------------------------------------------------------------------
(* Claims about the frame codec, checked under Spec *)

\* C1: for every command byte and every payload with 1 + len(payload) <= 57,
\* parse_frame(build_frame(cmd, payload)) is Frame(cmd, payload), the empty
\* payload included.
C1_FrameRoundTrip ==
    (pc = "parsed_single" /\ 1 + Len(payload) <= 57) => frame = Frame(cmd, payload)

C1_Witness ==
    /\ pc = "parsed_single"
    /\ Len(payload) = 56
    /\ frame = Frame(cmd, payload)

\* C2: parse_chunked_frames applied to the list build_chunked_frames returned,
\* in emission order, is Frame(cmd, payload); and a message of more than 63
\* bytes (payload length + 7) is carried by more than one report.
C2_ChunkedRoundTrip ==
    pc = "parsed_chunked" =>
        /\ frame = Frame(cmd, payload)
        /\ (Len(payload) + 7 > 63 => Len(reports) > 1)

C2_Witness ==
    /\ pc = "parsed_chunked"
    /\ Len(reports) >= 3
    /\ frame = Frame(cmd, payload)

\* C3: every report build_frame returns, and every report in the list
\* build_chunked_frames returns, is exactly 64 bytes long, whatever the
\* command byte and the payload.
C3_EveryReportIs64Bytes ==
    pc \in {"built_single", "built_chunked"} =>
        \A i \in 1..Len(reports) : Len(reports[i]) = HID_REPORT_SIZE

\* C10: for a message split into two or more reports, parse_chunked_frames
\* applied to the reports with one dropped, or in an order that differs from
\* the emission order, returns None and never a Frame.
C10_DroppedOrReorderedIsRejected ==
    pc \in {"parsed_dropped", "parsed_reordered"} => frame = None

\* C12: for every command and payload with 1 + len(payload) <= 57 the report
\* of build_frame has byte 0 = len(payload) + 7, bytes 1-2 = AA 55, bytes 3-4 =
\* 1 + len(payload) little-endian, byte 5 = the command, then the payload,
\* then the checksum of command + payload little-endian, then only zero
\* bytes up to index 63.
C12_FrameLayout ==
    (pc \in {"built_single", "parsed_single"} /\ 1 + Len(payload) <= 57) =>
        LET r  == reports[1]
            n  == Len(payload)
            ck == crc16(<<cmd>> \o payload)
        IN  /\ Len(r) = 64
            /\ At(r, 0) = n + 7
            /\ Slice(r, 1, 3) = <<170, 85>>
            /\ At(r, 3) = (1 + n) % 256 /\ At(r, 4) = (1 + n) \div 256
            /\ At(r, 5) = cmd
            /\ Slice(r, 6, 6 + n) = payload
            /\ At(r, 6 + n) = ck % 256 /\ At(r, 7 + n) = ck \div 256
            /\ \A k \in (8 + n)..63 : At(r, k) = 0

C12_Witness ==
    /\ pc = "built_single"
    /\ cmd = 166
    /\ Len(payload) = 3
    /\ Slice(reports[1], 0, 6) = <<10, 170, 85, 4, 0, 166>>
    /\ Slice(reports[1], 11, 64) = Zeros(53)

\* C13: whenever the encoded message (preamble + size + command + payload +
\* checksum, len(payload) + 7 bytes) is at most 63 bytes,
\* build_chunked_frames(cmd, payload) returns a one-element list whose
\* element is byte for byte build_frame(cmd, payload).
C13_SmallChunkedIsBuildFrame ==
    (pc \in {"built_chunked", "parsed_chunked"} /\ Len(payload) + 7 <= 63) =>
        /\ Len(reports) = 1
        /\ ~build_frame_raises(cmd, payload)
        /\ reports[1] = build_frame(cmd, payload)

C13_Witness ==
    /\ pc = "built_chunked"
    /\ Len(payload) = 56
    /\ reports = <<build_frame(cmd, payload)>>

----------------------------------------------------------------------------
(* Command scenarios: one builder, or parse_response, is called with drawn *)
(* arguments; the reports a builder returned are then parsed back.         *)

\* how far beyond the ends of a valid range the drawn arguments go
MaxOver == 2

SlotArgs == (0 - MaxOver)..(199 + MaxOver)

VolumeArgs == (0 - MaxOver)..(100 + MaxOver)

ValueArgs == (0 - MaxOver)..(255 + MaxOver)

IndexArgs == {-1, 0, 1, 255, 256}

ModuleArgs == (DOMAIN MODULE_COMMAND_MAP) \cup {"unknown", "FX"}

StoreSlotArgs == {-1, 0, 5, 199, 200}

StoreDataArgs ==
    {Pattern(n, sd[1], sd[2]) : n \in {0, 100, 511, 512, 513}, sd \in Seeds}

\* payloads of device responses: empty, one byte, a few bytes, and two
\* identify payloads (16 bytes, and 17 bytes with a zero and a high byte)
ResponsePayloads ==
    {<<>>, <<7>>, <<7, 1, 2, 3>>,
     <<1, 5, 0, 0, 0, 71, 69, 49, 53, 48, 0, 0, 0, 0, 0, 0>>,
     <<0, 0, 0, 0, 0, 71, 200, 49, 53, 48, 32, 80, 114, 111, 76, 105, 9>>}

Calls ==
    {[fn |-> "build_select_preset", slot |-> sl] : sl \in SlotArgs}
    \cup {[fn |-> "build_read_preset", slot |-> sl] : sl \in SlotArgs}
    \cup {[fn |-> "build_store_preset", slot |-> sl, data |-> d] :
            sl \in StoreSlotArgs, d \in StoreDataArgs}
    \cup {[fn |-> "build_set_volume", volume |-> v] : v \in VolumeArgs}
    \cup {[fn |-> "build_effect_param", module |-> m, param_index |-> ix, value |-> v] :
            m \in ModuleArgs, ix \in IndexArgs, v \in ValueArgs}
    \cup {[fn |-> "build_toggle_effect", module |-> m, enabled |-> e] :
            m \in ModuleArgs, e \in BOOLEAN}
    \cup {[fn |-> "parse_response", frame |-> Frame(c, pl)] :
            c \in 0..255, pl \in ResponsePayloads}

InitCmd ==
    /\ pc = "init"
    /\ call \in Calls
    /\ ret = None
    /\ cmd = 0
    /\ payload = <<>>
    /\ reports = <<>>
    /\ rx = <<>>
    /\ frame = None
    /\ PresetIdle
    /\ ServerIdle
    /\ ToolsIdle

CallSelectPreset ==
    /\ pc = "init"
    /\ call.fn = "build_select_preset"
    /\ ret' = build_select_preset(call.slot)
    /\ pc' = "returned"
    /\ UNCHANGED <<call, reports, frame>>
    /\ UNCHANGED notCommands

CallReadPreset ==
    /\ pc = "init"
    /\ call.fn = "build_read_preset"
    /\ ret' = build_read_preset(call.slot)
    /\ pc' = "returned"
    /\ UNCHANGED <<call, reports, frame>>
    /\ UNCHANGED notCommands

CallStorePreset ==
    /\ pc = "init"
    /\ call.fn = "build_store_preset"
    /\ ret' = build_store_preset(call.slot, call.data)
    /\ pc' = "returned"
    /\ UNCHANGED <<call, reports, frame>>
    /\ UNCHANGED notCommands

CallSetVolume ==
    /\ pc = "init"
    /\ call.fn = "build_set_volume"
    /\ ret' = build_set_volume(call.volume)
    /\ pc' = "returned"
    /\ UNCHANGED <<call, reports, frame>>
    /\ UNCHANGED notCommands

CallEffectParam ==
    /\ pc = "init"
    /\ call.fn = "build_effect_param"
    /\ ret' = build_effect_param(call.module, call.param_index, call.value)
    /\ pc' = "returned"
    /\ UNCHANGED <<call, reports, frame>>
    /\ UNCHANGED notCommands

CallToggleEffect ==
    /\ pc = "init"
    /\ call.fn = "build_toggle_effect"
    /\ ret' = build_toggle_effect(call.module, call.enabled)
    /\ pc' = "returned"
    /\ UNCHANGED <<call, reports, frame>>
    /\ UNCHANGED notCommands

CallParseResponse ==
    /\ pc = "init"
    /\ call.fn = "parse_response"
    /\ ret' = parse_response(call.frame)
    /\ pc' = "returned"
    /\ UNCHANGED <<call, reports, frame>>
    /\ UNCHANGED notCommands

\* the reports a builder returned, decoded again: a list by
\* parse_chunked_frames, a single report by parse_frame
ParseBuilt ==
    /\ pc = "returned"
    /\ call.fn # "parse_response"
    /\ ret.tag = "ok"
    /\ IF call.fn = "build_store_preset"
       THEN reports' = ret.value /\ frame' = parse_chunked_frames(ret.value)
       ELSE reports' = <<ret.value>> /\ frame' = parse_frame(ret.value)
    /\ pc' = "reparsed"
    /\ UNCHANGED <<call, ret>>
    /\ UNCHANGED notCommands

NextCmd ==
    \/ CallSelectPreset
    \/ CallReadPreset
    \/ CallStorePreset
    \/ CallSetVolume
    \/ CallEffectParam
    \/ CallToggleEffect
    \/ CallParseResponse
    \/ ParseBuilt

SpecCmd == InitCmd /\ [][NextCmd]_vars

----------------------------------------------------------------------------
(* Claims about the command builders and the response dispatcher, checked  *)
(* under SpecCmd                                                           *)

Returned == pc \in {"returned", "reparsed"}

IsValueError(r) == r = Raise("ValueError")

\* a call that returned one 64-byte report
IsReport(r) == r.tag = "ok" /\ Len(r.value) = HID_REPORT_SIZE

\* the commands for which parse_response registers a parser
ParserCommands ==
    {Command.IDENTIFY, Command.PRESET, Command.ACTIVE_PATCH,
     Command.VOLUME, Command.SYSTEM}

\* C4: parse_response never raises, whatever the Frame; for a frame whose
\* command byte is no known command identifier, or has no registered parser,
\* it returns the untyped frame itself.
C4_ParseResponseNeverRaises ==
    (Returned /\ call.fn = "parse_response") =>
        /\ ret.tag = "ok"
        /\ (call.frame.command \notin ParserCommands => ret.value = call.frame)

\* C6: the builders raise ValueError, and return no report, for a slot
\* outside [0,199] (select, read, store), a volume outside [0,100], an effect
\* value outside [0,255] or a module name that is not one of the nine; for
\* every in-domain input (the parameter index being a byte, the stored
\* record 512 bytes) they return a report and do not raise.
C6_BuildersValidateDomain ==
    Returned =>
        /\ call.fn \in {"build_select_preset", "build_read_preset"} =>
              IF call.slot \in 0..199 THEN IsReport(ret) ELSE IsValueError(ret)
        /\ call.fn = "build_store_preset" =>
              /\ call.slot \notin 0..199 => IsValueError(ret)
              /\ (call.slot \in 0..199 /\ Len(call.data) = 512) =>
                    /\ ret.tag = "ok"
                    /\ \A i \in 1..Len(ret.value) : Len(ret.value[i]) = HID_REPORT_SIZE
        /\ call.fn = "build_set_volume" =>
              IF call.volume \in 0..100 THEN IsReport(ret) ELSE IsValueError(ret)
        /\ call.fn = "build_effect_param" =>
              /\ (call.value \notin 0..255 \/ call.module \notin DOMAIN MODULE_COMMAND_MAP)
                    => IsValueError(ret)
              /\ (call.value \in 0..255 /\ call.module \in DOMAIN MODULE_COMMAND_MAP
                    /\ call.param_index \in 0..255) => IsReport(ret)

C6_Witness ==
    /\ pc = "returned"
    /\ call.fn = "build_effect_param"
    /\ call.module = "amp"
    /\ call.value = 256
    /\ IsValueError(ret)

\* C7: build_store_preset(slot, data) raises ValueError unless len(data) is
\* exactly 512; for a slot in [0,199] and 512 bytes of data it returns exactly
\* nine 64-byte reports, and parse_chunked_frames of them, in order, is
\* command 0xA8 with the slot byte followed by the 512 bytes unchanged.
C7_StoreCarriesFullRecord ==
    (Returned /\ call.fn = "build_store_preset") =>
        /\ Len(call.data) # 512 => IsValueError(ret)
        /\ (call.slot \in 0..199 /\ Len(call.data) = 512) =>
              /\ ret.tag = "ok"
              /\ Len(ret.value) = 9
              /\ \A i \in 1..Len(ret.value) : Len(ret.value[i]) = HID_REPORT_SIZE
              /\ pc = "reparsed" =>
                    frame = Frame(Command.STORE_PATCH, <<call.slot>> \o call.data)

C7_Witness ==
    /\ pc = "reparsed"
    /\ call.fn = "build_store_preset"
    /\ call.slot = 199
    /\ frame.tag = "Frame"
    /\ Len(frame.payload) = 513

\* the command identifier each module name stands for
ModuleCommandIds ==
    [fx |-> 144, od |-> 145, amp |-> 147, cab |-> 148, ns |-> 149, eq |-> 150,
     mod |-> 151, delay |-> 152, reverb |-> 153]

\* C14: for each of the nine module names, every value in 0..255 and every
\* parameter index in 0..255, build_effect_param(module, index, value) returns
\* a report that parses to the module's command identifier (fx 0x90, od 0x91,
\* amp 0x93, cab 0x94, ns 0x95, eq 0x96, mod 0x97, delay 0x98, reverb 0x99)
\* with payload [index, value]; build_toggle_effect(module, enabled) returns
\* what build_effect_param(module, 1, 1 if enabled else 0) returns.
C14_EffectParamAddressesModule ==
    /\ (Returned /\ call.fn = "build_effect_param"
            /\ call.module \in DOMAIN ModuleCommandIds
            /\ call.value \in 0..255 /\ call.param_index \in 0..255) =>
          /\ IsReport(ret)
          /\ pc = "reparsed" =>
                frame = Frame(ModuleCommandIds[call.module],
                              <<call.param_index, call.value>>)
    /\ (Returned /\ call.fn = "build_toggle_effect") =>
          /\ ret = build_effect_param(call.module, 1, IF call.enabled THEN 1 ELSE 0)
          /\ (pc = "reparsed" /\ call.module \in DOMAIN ModuleCommandIds) =>
                frame = Frame(ModuleCommandIds[call.module],
                              <<1, IF call.enabled THEN 1 ELSE 0>>)

C14_Witness ==
    /\ pc = "reparsed"
    /\ call.fn = "build_effect_param"
    /\ call.module = "delay"
    /\ call.param_index = 255
    /\ frame = Frame(152, <<255, 128>>)

\* C15: for a Preset (0x83), ActivePatch (0xA6) or Volume (0xA2) frame with an
\* empty payload parse_response returns the untyped frame unchanged;
\* otherwise it returns the typed response, whose slot or volume is the first
\* payload byte and, for Preset, whose data is all remaining payload bytes.
C15_TypedUnlessRejected ==
    (Returned /\ call.fn = "parse_response" /\ call.frame.command \in ParserCommands) =>
        LET pl == call.frame.payload
        IN  IF pl = <<>> /\ call.frame.command \in {131, 166, 162}
            THEN ret = Ok(call.frame)
            ELSE /\ ret.tag = "ok"
                 /\ call.frame.command = 16 => ret.value.tag = "IdentifyResponse"
                 /\ call.frame.command = 161 => ret.value = SystemResponse(pl)
                 /\ call.frame.command = 131 =>
                       /\ ret.value.tag = "PresetResponse"
                       /\ ret.value.slot = Head(pl)
                       /\ ret.value.data = Tail(pl)
                 /\ call.frame.command = 166 =>
                       /\ ret.value.tag = "ActivePatchResponse"
                       /\ ret.value.slot = Head(pl)
                 /\ call.frame.command = 162 =>
                       /\ ret.value.tag = "VolumeResponse"
                       /\ ret.value.volume = Head(pl)

C15_Witness ==
    /\ pc = "returned"
    /\ call.fn = "parse_response"
    /\ call.frame = Frame(131, <<7, 1, 2, 3>>)
    /\ ret = Ok([tag |-> "PresetResponse", slot |-> 7, data |-> <<1, 2, 3>>])

\* the other case of C15: an empty Volume payload comes back untyped
C15_RejectedWitness ==
    /\ pc = "returned"
    /\ call.fn = "parse_response"
    /\ call.frame = Frame(162, <<>>)
    /\ ret = Ok(Frame(162, <<>>))

----------------------------------------------------------------------------
(* Data model scenarios: a drawn Preset is serialized by Preset.to_bytes   *)
(* and read back by Preset.from_bytes, and each of its modules is          *)
(* serialized alone.                                                       *)

\* how many bytes the drawn reserved fields and EQ band lists fall short by
MaxShort == 1

FieldSeeds == {<<0, 0>>, <<255, 0>>, <<77, 29>>}

\* the k-th field value drawn from seed sd
Gen(sd, k) == (sd[1] + sd[2] * k) % 256

\* a reserved field of n bytes less the shortfall
Reserved(sd, n, short) == Pattern(Max(n - short, 0), sd[1], sd[2])

MkFX(sd, rs) ==
    [header |-> Gen(sd, 0), enabled |-> Gen(sd, 1), type |-> Gen(sd, 2),
     q |-> Gen(sd, 3), position |-> Gen(sd, 4), peak |-> Gen(sd, 5),
     level |-> Gen(sd, 6), reserved |-> Reserved(sd, 6, rs)]

MkOD(sd, rs) ==
    [header |-> Gen(sd, 1), enabled |-> Gen(sd, 2), type |-> Gen(sd, 3),
     volume |-> Gen(sd, 4), tone |-> Gen(sd, 5), gain |-> Gen(sd, 6),
     reserved |-> Reserved(sd, 5, rs)]

MkAmp(sd, rs, gain) ==
    [header |-> Gen(sd, 2), enabled |-> Gen(sd, 3), type |-> Gen(sd, 4),
     amp_gain |-> gain, bass |-> Gen(sd, 6), mid |-> Gen(sd, 7),
     treble |-> Gen(sd, 8), presence |-> Gen(sd, 9), master |-> Gen(sd, 10),
     reserved |-> Reserved(sd, 8, rs)]

MkCab(sd, rs) ==
    [header |-> Gen(sd, 3), enabled |-> Gen(sd, 4), type |-> Gen(sd, 5),
     mic |-> Gen(sd, 6), center |-> Gen(sd, 7), distance |-> Gen(sd, 8),
     tube |-> Gen(sd, 9), reserved |-> Reserved(sd, 6, rs)]

MkNS(sd, rs) ==
    [header |-> Gen(sd, 4), enabled |-> Gen(sd, 5), type |-> Gen(sd, 6),
     attack |-> Gen(sd, 7), release |-> Gen(sd, 8), threshold |-> Gen(sd, 9),
     reserved |-> Reserved(sd, 5, rs)]

MkEQ(sd, rs, bs) ==
    [header |-> Gen(sd, 5), enabled |-> Gen(sd, 6), type |-> Gen(sd, 7),
     bands |-> [i \in 1..(6 - bs) |-> Gen(sd, 7 + i)],
     bands_extra |-> [i \in 1..(6 - bs) |-> Gen(sd, 13 + i)],
     reserved |-> Reserved(sd, 8, rs)]

MkMod(sd, rs) ==
    [header |-> Gen(sd, 6), enabled |-> Gen(sd, 7), type |-> Gen(sd, 8),
     rate |-> Gen(sd, 9), level |-> Gen(sd, 10), depth |-> Gen(sd, 11),
     param4 |-> Gen(sd, 12), param5 |-> Gen(sd, 13),
     reserved |-> Reserved(sd, 7, rs)]

MkDelay(sd, rs) ==
    [header |-> Gen(sd, 7), enabled |-> Gen(sd, 8), type |-> Gen(sd, 9),
     level |-> Gen(sd, 10), feedback |-> Gen(sd, 11),
     time_ms |-> Gen(sd, 12) + 256 * Gen(sd, 13),
     subdivision |-> Gen(sd, 14), param5 |-> Gen(sd, 15), param6 |-> Gen(sd, 16),
     reserved |-> Reserved(sd, 7, rs)]

MkReverb(sd, rs) ==
    [header |-> Gen(sd, 8), enabled |-> Gen(sd, 9), type |-> Gen(sd, 10),
     pre_delay |-> Gen(sd, 11), level |-> Gen(sd, 12), decay |-> Gen(sd, 13),
     tone |-> Gen(sd, 14), reserved |-> Reserved(sd, 6, rs)]

\* "", "A", "Test Preset", a 14-character and a 20-character name, a name
\* with a character beyond ASCII, and a name with a NUL character inside
NameArgs ==
    {<<>>, <<65>>, <<84, 101, 115, 116, 32, 80, 114, 101, 115, 101, 116>>,
     Pattern(14, 65, 1), Pattern(20, 97, 1), <<233, 99, 104, 111>>, <<65, 0, 66>>}

\* the default order, the order of test_effect_order_preserved, ten bytes
\* 255, a short list, and a list with an entry beyond a byte
OrderArgs ==
    {Pattern(10, 0, 1), <<8, 7, 6, 5, 4, 3, 2, 1, 0, 9>>, Pattern(10, 255, 0),
     <<3, 2, 1>>, <<256, 1, 2, 3, 4, 5, 6, 7, 8, 9>>}

\* an amp gain drawn from the seed, and one no byte can hold
GainArgs(sd) == {Gen(sd, 5), 300}

MkPreset(name, order, sd, rs, bs, gain) ==
    [effect_order |-> order, name |-> name,
     fx |-> MkFX(sd, rs), od |-> MkOD(sd, rs), amp |-> MkAmp(sd, rs, gain),
     cab |-> MkCab(sd, rs), ns |-> MkNS(sd, rs), eq |-> MkEQ(sd, rs, bs),
     mod |-> MkMod(sd, rs), delay |-> MkDelay(sd, rs), reverb |-> MkReverb(sd, rs)]

\* delay times no two bytes can hold
TimeArgs == {-1, 65536, 70000}

Presets ==
    UNION {{MkPreset(nm, ord, sd, rs, bs, g) :
                nm \in NameArgs, ord \in OrderArgs, rs \in 0..MaxShort,
                bs \in 0..MaxShort, g \in GainArgs(sd)} : sd \in FieldSeeds}
        \cup {[MkPreset(<<65>>, Pattern(10, 0, 1), <<77, 29>>, 0, 0, 222)
                   EXCEPT !.delay.time_ms = t] : t \in TimeArgs}

InitPreset ==
    /\ pc = "init"
    /\ preset \in Presets
    /\ encoded = None
    /\ modbytes = <<>>
    /\ decoded = None
    /\ cmd = 0
    /\ payload = <<>>
    /\ reports = <<>>
    /\ rx = <<>>
    /\ frame = None
    /\ call = NoCall
    /\ ret = None
    /\ ServerIdle
    /\ ToolsIdle

PresetToBytes ==
    /\ pc = "init"
    /\ encoded' = Preset_to_bytes(preset)
    /\ pc' = "preset_encoded"
    /\ UNCHANGED <<preset, modbytes, decoded>>
    /\ UNCHANGED notPreset

PresetFromBytes ==
    /\ pc = "preset_encoded"
    /\ encoded.tag = "ok"
    /\ decoded' = Preset_from_bytes(encoded.value)
    /\ pc' = "preset_decoded"
    /\ UNCHANGED <<preset, encoded, modbytes>>
    /\ UNCHANGED notPreset

ModulesToBytes ==
    /\ pc = "init"
    /\ modbytes' = module_bytes(preset)
    /\ pc' = "modules_encoded"
    /\ UNCHANGED <<preset, encoded, decoded>>
    /\ UNCHANGED notPreset

NextPreset ==
    \/ PresetToBytes
    \/ PresetFromBytes
    \/ ModulesToBytes

SpecPreset == InitPreset /\ [][NextPreset]_vars

----------------------------------------------------------------------------
(* Claims about the preset record, checked under SpecPreset *)

\* SIZE of each module class, in the order of MODULE_NAMES
ModuleSizes ==
    <<FXModule_SIZE, DistortionModule_SIZE, AmpModule_SIZE, CabModule_SIZE,
      NoiseGateModule_SIZE, EQModule_SIZE, ModulationModule_SIZE,
      DelayModule_SIZE, ReverbModule_SIZE>>

\* C8: Preset.to_bytes returns exactly 512 bytes for every Preset, and each
\* module's to_bytes returns exactly its fixed size (13, 11, 17, 13, 11, 23,
\* 15, 17, 13), however the reserved padding and the EQ band lists were set.
C8_SerializedSizesAreFixed ==
    /\ (pc = "preset_encoded" /\ encoded.tag = "ok") =>
          Len(encoded.value) = PRESET_SIZE
    /\ pc = "modules_encoded" =>
          \A k \in 1..Len(modbytes) :
              modbytes[k].tag = "ok" => Len(modbytes[k].value) = ModuleSizes[k]

\* the typed fields of a module: every field but the reserved padding
Typed(m) == [f \in (DOMAIN m) \ {"reserved"} |-> m[f]]

IsBytes(s) == \A i \in 1..Len(s) : IsByte(s[i])

\* every typed field of a module record is a byte (time_ms: 16 bits, the EQ
\* band lists: six bytes each)
ValidModule(m) ==
    \A f \in (DOMAIN m) \ {"reserved"} :
        CASE f = "time_ms" -> m[f] \in 0..65535
          [] f \in {"bands", "bands_extra"} -> Len(m[f]) = 6 /\ IsBytes(m[f])
          [] OTHER -> IsByte(m[f])

ModuleFields == {"fx", "od", "amp", "cab", "ns", "eq", "mod", "delay", "reverb"}

ValidPreset(p) ==
    /\ Len(p.effect_order) = 10
    /\ IsBytes(p.effect_order)
    /\ Len(p.name) <= 14
    /\ \A i \in 1..Len(p.name) : p.name[i] \in 1..127
    /\ \A f \in ModuleFields : ValidModule(p[f])

\* C9: for every Preset with a 10-entry effect_order of bytes, an ASCII name
\* of at most 14 characters without NUL and byte-valued module fields
\* (time_ms 16 bits, six bytes per EQ band list), from_bytes(to_bytes(p))
\* equals p on name, effect_order and every typed field of every module, and
\* delay.time_ms lies low byte at module byte 5, high byte at module byte 6.
C9_PresetRoundTrip ==
    (pc \in {"preset_encoded", "preset_decoded"} /\ ValidPreset(preset)) =>
        /\ encoded.tag = "ok"
        /\ At(encoded.value, OFF_DELAY + 5) = preset.delay.time_ms % 256
        /\ At(encoded.value, OFF_DELAY + 6) = preset.delay.time_ms \div 256
        /\ pc = "preset_decoded" =>
              /\ decoded.name = preset.name
              /\ decoded.effect_order = preset.effect_order
              /\ \A f \in ModuleFields : Typed(decoded[f]) = Typed(preset[f])

C9_Witness ==
    /\ pc = "preset_decoded"
    /\ ValidPreset(preset)
    /\ Len(preset.name) = 14
    /\ preset.delay.time_ms = 50857
    /\ decoded.delay.time_ms = 50857
    /\ Len(preset.fx.reserved) < 6

\* C22: in a 512-byte record written by Preset.to_bytes the fields occupy the
\* ranges effect_order [0,10), size field [10,12), name [12,26), fx [26,39),
\* od [39,50), amp [50,67), cab [67,80), ns [80,91), eq [91,114), mod
\* [114,129), delay [129,146), reverb [146,159), contiguous and in that
\* order; the size field holds 512 - 10 - 2 = 500 big-endian (01 F4) and
\* bytes [159,512) are zero.
C22_RecordLayout ==
    (pc \in {"preset_encoded", "preset_decoded"} /\ encoded.tag = "ok"
        /\ Len(encoded.value) = 512) =>
        LET b  == encoded.value
            mb == module_bytes(preset)
            starts == <<26, 39, 50, 67, 80, 91, 114, 129, 146, 159>>
        IN  /\ \A i \in 0..9 :
                  At(b, i) = IF i < Len(preset.effect_order)
                             THEN preset.effect_order[i + 1] % 256 ELSE 0
            /\ Slice(b, 10, 12) = <<1, 244>>
            /\ Slice(b, 12, 26) = pad_to(Slice(encode_ascii(preset.name), 0, 14), 14)
            /\ \A k \in 1..9 : Slice(b, starts[k], starts[k + 1]) = mb[k].value
            /\ Slice(b, 159, 512) = Zeros(353)

C22_Witness ==
    /\ pc = "preset_encoded"
    /\ encoded.tag = "ok"
    /\ Len(encoded.value) = 512
    /\ preset.effect_order = <<8, 7, 6, 5, 4, 3, 2, 1, 0, 9>>
    /\ Slice(encoded.value, 0, 12) = <<8, 7, 6, 5, 4, 3, 2, 1, 0, 9, 1, 244>>
    /\ Slice(encoded.value, 146, 150) = <<53, 82, 111, 140>>

\* C24: encoding never silently alters a supplied typed value:
\* DelayModule.to_bytes with time_ms outside [0,65535], and Preset.to_bytes
\* with an effect_order entry outside [0,255] or such a delay, signal an
\* error instead of returning bytes.
C24_NoSilentAlteration ==
    /\ (pc = "modules_encoded" /\ preset.delay.time_ms \notin 0..65535) =>
          modbytes[8].tag = "raise"
    /\ (/\ pc = "preset_encoded"
        /\ \/ preset.delay.time_ms \notin 0..65535
           \/ \E i \in 1..Min(Len(preset.effect_order), 10) :
                 preset.effect_order[i] \notin 0..255) =>
          encoded.tag = "raise"

\* the index of the first zero byte of s, or len(s) if there is none
RECURSIVE FirstZero(_)
FirstZero(s) == IF Len(s) = 0 \/ s[1] = 0 THEN 0 ELSE 1 + FirstZero(Tail(s))

\* C17: Preset.to_bytes writes the name into the 14 bytes at offset 0x0C
\* truncated to 14 characters, each character beyond ASCII replaced by "?",
\* the rest of the field zero, and the bytes from 0x1A on are those of the FX
\* module; Preset.from_bytes returns the bytes of the 14-byte field up to but
\* excluding the first zero byte, so the decoded name never exceeds 14
\* characters.
C17_NameFieldIs14Bytes ==
    (pc \in {"preset_encoded", "preset_decoded"} /\ encoded.tag = "ok") =>
        LET b     == encoded.value
            n     == Min(Len(preset.name), 14)
            field == Slice(b, 12, 26)
            fx    == FXModule_to_bytes(preset.fx).value
        IN  /\ Len(field) = 14
            /\ \A i \in 1..14 :
                  field[i] = IF i > n THEN 0
                             ELSE IF preset.name[i] < 128 THEN preset.name[i] ELSE 63
            /\ Slice(b, 26, 26 + Len(fx)) = fx
            /\ pc = "preset_decoded" =>
                  /\ Len(decoded.name) <= 14
                  /\ decoded.name = SubSeq(field, 1, FirstZero(field))

C17_Witness ==
    /\ pc = "preset_decoded"
    /\ Len(preset.name) = 20
    /\ Slice(encoded.value, 12, 26) = Pattern(14, 97, 1)
    /\ Slice(encoded.value, 26, 39) = FXModule_to_bytes(preset.fx).value
    /\ decoded.name = Pattern(14, 97, 1)

\* the other cases of C17: a replaced character, and a NUL inside the name
C17_ReplacedWitness ==
    /\ pc = "preset_decoded"
    /\ preset.name = <<233, 99, 104, 111>>
    /\ decoded.name = <<63, 99, 104, 111>>

C17_NulWitness ==
    /\ pc = "preset_decoded"
    /\ preset.name = <<65, 0, 66>>
    /\ Slice(encoded.value, 12, 16) = <<65, 0, 66, 0>>
    /\ decoded.name = <<65>>

----------------------------------------------------------------------------
(* models/file_formats.py: the .mo preset file and the .mbf backup file *)

MO_FILE_SIZE == 2048

MO_PRESET_OFFSET == 512

\* the bytes export_mo writes: the record assigned over a slice of a zeroed
\* bytearray
export_mo(p) ==
    LET preset_data == Preset_to_bytes(p)
    IN  IF preset_data.tag = "raise" THEN preset_data
        ELSE Ok(SliceAssign(Zeros(MO_FILE_SIZE), MO_PRESET_OFFSET,
                            MO_PRESET_OFFSET + PRESET_SIZE, preset_data.value))

import_mo(data) ==
    IF Len(data) < MO_PRESET_OFFSET + PRESET_SIZE THEN Raise("ValueError")
    ELSE Ok(Preset_from_bytes(Slice(data, MO_PRESET_OFFSET, MO_PRESET_OFFSET + PRESET_SIZE)))


\* how many preset entries a backup file holds: 199 on the pedal, scaled
\* down here; the pedal of the model has as many slots
MaxSlots == 2

MBF_PRESET_COUNT == MaxSlots

MBF_MANUFACTURER_SIZE == 8

MBF_MODEL_NAME_SIZE == 32

MBF_PRESET_ENTRY_SIZE == 546

\* "MOOER" and "GE150 Pro Li", the default manufacturer and model_name
MOOER == <<77, 79, 79, 69, 82>>

GE150_PRO_LI == <<71, 69, 49, 53, 48, 32, 80, 114, 111, 32, 76, 105>>

\* the entries i, i+1, ... of the file: a 546-byte entry each, the record of
\* presets[i] assigned over its first 512 bytes when the list reaches that far
RECURSIVE mbf_entries(_, _)
mbf_entries(ps, i) ==
    IF i >= MBF_PRESET_COUNT THEN Ok(<<>>)
    ELSE LET blank == Zeros(MBF_PRESET_ENTRY_SIZE)
             data  == IF i < Len(ps) THEN Preset_to_bytes(At(ps, i)) ELSE Ok(<<>>)
             rest  == mbf_entries(ps, i + 1)
         IN  IF data.tag = "raise" THEN data
             ELSE IF rest.tag = "raise" THEN rest
             ELSE IF i < Len(ps)
                  THEN Ok(SliceAssign(blank, 0, PRESET_SIZE, data.value) \o rest.value)
                  ELSE Ok(blank \o rest.value)

\* the bytes export_mbf writes for a list of presets
export_mbf(ps) ==
    LET mfg     == Slice(encode_ascii(MOOER), 0, MBF_MANUFACTURER_SIZE)
        model   == Slice(encode_ascii(GE150_PRO_LI), 0, MBF_MODEL_NAME_SIZE)
        header  == pad_to(mfg, MBF_MANUFACTURER_SIZE)
                       \o pad_to(model, MBF_MODEL_NAME_SIZE) \o <<1, 0, 0, 0>>
        entries == mbf_entries(ps, 0)
    IN  IF entries.tag = "raise" THEN entries ELSE Ok(header \o entries.value)

\* the loop of import_mbf from its k-th round on, the read position at offset
RECURSIVE import_entries(_, _, _)
import_entries(data, offset, k) ==
    IF k >= MBF_PRESET_COUNT THEN <<>>
    ELSE IF offset + MBF_PRESET_ENTRY_SIZE > Len(data) THEN <<>>
    ELSE LET entry == Slice(data, offset, offset + MBF_PRESET_ENTRY_SIZE)
         IN  <<Preset_from_bytes(Slice(entry, 0, PRESET_SIZE))>>
                 \o import_entries(data, offset + MBF_PRESET_ENTRY_SIZE, k + 1)

import_mbf(data) ==
    import_entries(data, MBF_MANUFACTURER_SIZE + MBF_MODEL_NAME_SIZE + 4, 0)

----------------------------------------------------------------------------
(* server.py: restore_backup, and the pedal it talks to *)

\* the characters str.strip() removes from both ends of an ASCII name
Whitespace == {9, 10, 11, 12, 13, 28, 29, 30, 31, 32}

strip(name) ==
    LET kept == {i \in 1..Len(name) : name[i] \notin Whitespace}
    IN  IF kept = {} THEN <<>>
        ELSE SubSeq(name, CHOOSE i \in kept : \A j \in kept : i <= j,
                          CHOOSE i \in kept : \A j \in kept : i >= j)

\* Preset(name=...): every other field at its default
Preset(name) == MkPreset(name, Pattern(10, 0, 1), <<0, 0>>, 0, 0, 0)

\* the frame the pedal answers a read of slot s with
preset_frame(s) == Frame(Command.PRESET, <<s>> \o At(device, s))

\* what send_and_receive can return for a read of slot s: None when the read
\* timed out, the slot's record, or a frame of another command
Replies(s) == {None, preset_frame(s), Frame(Command.IDENTIFY, <<>>)}

\* the slots of the pedal after it received the reports of a store
device_after(dev, frames) ==
    LET fr == parse_chunked_frames(frames)
    IN  IF fr = None THEN dev
        ELSE IF fr.command # Command.STORE_PATCH \/ Len(fr.payload) < 1 THEN dev
        ELSE IF At(fr.payload, 0) >= Len(dev) THEN dev
        ELSE [dev EXCEPT ![At(fr.payload, 0) + 1] =
                             Slice(fr.payload, 1, Len(fr.payload))]

\* USBConnection.write refuses a report that is not 64 bytes long
write_raises(frames) == \E k \in 1..Len(frames) : Len(frames[k]) # HID_REPORT_SIZE

\* restore_backup reads the slot before storing this entry
reads_first(entry) == ~overwrite /\ strip(entry.name) # <<>>

\* the loop body reaching "continue" whenever the read was answered with a
\* record, whatever the name in it
skips_any_answered(entry, reply) ==
    /\ reads_first(entry)
    /\ reply # None
    /\ parse_preset_response(reply) # None

\* the loop body reaches "continue" for this entry, given the reply to its read
skips(entry, reply) ==
    /\ reads_first(entry)
    /\ reply # None
    /\ parse_preset_response(reply) # None
    /\ strip(Preset_from_bytes(parse_preset_response(reply).data).name) # <<>>

\* names on the pedal: none, a blank one (drawn for slot 0 only), and
\* test_restore_overwrite's "My Tone"
BlankName == <<32>>

DeviceNames == {<<>>, BlankName, <<77, 121, 32, 84, 111, 110, 101>>}

\* names in the backup: none, and test_restore_overwrite's "Backup Tone"
BackupNames == {<<>>, <<66, 97, 99, 107, 117, 112, 32, 84, 111, 110, 101>>}

DeviceRecords(names) == {Preset_to_bytes(Preset(nm)).value : nm \in names}

Devices ==
    {<<first>> \o rest :
         first \in DeviceRecords(DeviceNames),
         rest \in [1..(MBF_PRESET_COUNT - 1) -> DeviceRecords(DeviceNames \ {BlankName})]}

BackupLists ==
    UNION {[1..n -> {Preset(nm) : nm \in BackupNames}] : n \in 0..MBF_PRESET_COUNT}

\* how many bytes are missing from the end of the backup files drawn
Truncations == {0, 1}

\* a file that exists, with its bytes
File(data) == [tag |-> "file", data |-> data]

BackupFiles ==
    {File(Slice(export_mbf(ps).value, 0, Len(export_mbf(ps).value) - t)) :
         ps \in BackupLists, t \in Truncations}

InitServer ==
    /\ pc = "init"
    /\ mbf_file \in BackupFiles \cup {None}
    /\ device \in Devices
    /\ connected \in BOOLEAN
    /\ overwrite \in BOOLEAN
    /\ presets = <<>>
    /\ at_slot = 0
    /\ stores = <<>>
    /\ timeouts = 0
    /\ restored = 0
    /\ outcome = None
    /\ ToolsIdle
    /\ cmd = 0
    /\ payload = <<>>
    /\ reports = <<>>
    /\ rx = <<>>
    /\ frame = None
    /\ call = NoCall
    /\ ret = None
    /\ PresetIdle

\* Path(input_path).exists() is false
RestoreMissingFile ==
    /\ pc = "init"
    /\ mbf_file = None
    /\ outcome' = Ok([error |-> "File not found"])
    /\ pc' = "restore_done"
    /\ UNCHANGED <<connected, device, mbf_file, overwrite, presets, at_slot,
                   stores, timeouts, restored>>
    /\ UNCHANGED notServer

\* _get_connection raises
RestoreNotConnected ==
    /\ pc = "init"
    /\ mbf_file # None
    /\ ~connected
    /\ outcome' = Raise("RuntimeError")
    /\ pc' = "restore_done"
    /\ UNCHANGED <<connected, device, mbf_file, overwrite, presets, at_slot,
                   stores, timeouts, restored>>
    /\ UNCHANGED notServer

RestoreBegin ==
    /\ pc = "init"
    /\ mbf_file # None
    /\ connected
    /\ presets' = import_mbf(mbf_file.data)
    /\ at_slot' = 0
    /\ restored' = 0
    /\ pc' = "restore_loop"
    /\ UNCHANGED <<connected, device, mbf_file, overwrite, stores, timeouts, outcome>>
    /\ UNCHANGED notServer

\* one round of the loop that ends in "continue"
RestoreSkip ==
    /\ pc = "restore_loop"
    /\ at_slot < Len(presets)
    /\ \E reply \in Replies(at_slot) :
          /\ skips(At(presets, at_slot), reply)
          /\ at_slot' = at_slot + 1
    /\ UNCHANGED <<connected, device, mbf_file, overwrite, presets, stores,
                   timeouts, restored, outcome>>
    /\ UNCHANGED <<pc>>
    /\ UNCHANGED notServer

\* the reports restore_backup sends for an entry, or the exception raised on
\* the way to sending them
store_frames(s, entry) ==
    LET data == Preset_to_bytes(entry)
    IN  IF data.tag = "raise" THEN data ELSE build_store_preset(s, data.value)

\* one round of the loop that sends the store
RestoreStore ==
    /\ pc = "restore_loop"
    /\ at_slot < Len(presets)
    /\ \E entry \in {At(presets, at_slot)} :
       \E frames \in {store_frames(at_slot, entry)} :
       \E failed \in {frames.tag = "raise" \/ write_raises(frames.value)} :
       \E after \in {IF failed THEN device ELSE device_after(device, frames.value)} :
       \E reply \in IF reads_first(entry) THEN Replies(at_slot) ELSE {None} :
          /\ ~skips(entry, reply)
          /\ timeouts' = IF reads_first(entry) /\ reply # preset_frame(at_slot)
                         THEN timeouts + 1 ELSE timeouts
          /\ IF failed
             THEN /\ outcome' = Raise("ValueError")
                  /\ pc' = "restore_done"
                  /\ UNCHANGED <<device, stores, restored, at_slot>>
             ELSE /\ device' = after
                  /\ stores' = Append(stores,
                         [slot     |-> at_slot,
                          data     |-> At(after, at_slot),
                          replaced |-> Preset_from_bytes(At(device, at_slot)).name])
                  /\ restored' = restored + 1
                  /\ at_slot' = at_slot + 1
                  /\ UNCHANGED <<pc, outcome>>
    /\ UNCHANGED <<connected, mbf_file, overwrite, presets>>
    /\ UNCHANGED notServer

RestoreReturn ==
    /\ pc = "restore_loop"
    /\ at_slot >= Len(presets)
    /\ outcome' = Ok([restored |-> TRUE, preset_count |-> restored])
    /\ pc' = "restore_done"
    /\ UNCHANGED <<connected, device, mbf_file, overwrite, presets, at_slot,
                   stores, timeouts, restored>>
    /\ UNCHANGED notServer

NextServer ==
    \/ RestoreMissingFile
    \/ RestoreNotConnected
    \/ RestoreBegin
    \/ RestoreSkip
    \/ RestoreStore
    \/ RestoreReturn

SpecServer == InitServer /\ [][NextServer]_vars

----------------------------------------------------------------------------
(* Claims about restore_backup, checked under SpecServer *)

\* the name slot s of the pedal held before restore_backup was called
NameBefore(s) ==
    IF \E k \in 1..Len(stores) : stores[k].slot = s
    THEN stores[CHOOSE k \in 1..Len(stores) : stores[k].slot = s].replaced
    ELSE Preset_from_bytes(At(device, s)).name

\* C5: restore_backup with overwrite=False never sends a store to a slot whose
\* preset on the pedal has a name (one that is not blank), whether the backup
\* entry for the slot is named or empty; when every slot of the pedal holds a
\* named preset no store is sent and the preset_count returned is 0.  Stated
\* for the runs in which the pedal answered every read with the slot's record.
C5_NoStoreOverNamedSlot ==
    (pc \in {"restore_loop", "restore_done"} /\ ~overwrite /\ timeouts = 0) =>
        /\ \A k \in 1..Len(stores) : strip(stores[k].replaced) = <<>>
        /\ (/\ pc = "restore_done"
            /\ mbf_file # None
            /\ outcome.tag = "ok"
            /\ \A s \in 0..(MBF_PRESET_COUNT - 1) : strip(NameBefore(s)) # <<>>) =>
               /\ stores = <<>>
               /\ outcome.value = [restored |-> TRUE, preset_count |-> 0]

\* the file is one export_mbf wrote: the header and every entry, complete
CompleteBackup ==
    /\ mbf_file # None
    /\ \E ps \in BackupLists : mbf_file.data = export_mbf(ps).value

\* C20: restore_backup reports preset_count equal to the number of stores it
\* sent, sends at most one store per backup entry, in ascending slot order,
\* and stores every entry of an export_mbf file (199 on the pedal), entry i
\* into slot i, both when overwrite=True, whatever the pedal holds, and when
\* overwrite=False and every slot of the pedal holds a preset with an empty
\* name.
C20_RestoreStoresEveryEntry ==
    /\ (pc = "restore_done" /\ outcome.tag = "ok" /\ mbf_file # None) =>
          outcome.value = [restored |-> TRUE, preset_count |-> Len(stores)]
    /\ \A k \in 1..Len(stores) :
          /\ stores[k].slot \in 0..(Len(presets) - 1)
          /\ \A j \in 1..(k - 1) : stores[j].slot < stores[k].slot
    /\ (/\ pc = "restore_done"
        /\ connected
        /\ CompleteBackup
        /\ \/ overwrite
           \/ \A s \in 0..(MBF_PRESET_COUNT - 1) : NameBefore(s) = <<>>) =>
          /\ outcome = Ok([restored |-> TRUE, preset_count |-> MBF_PRESET_COUNT])
          /\ Len(stores) = MBF_PRESET_COUNT
          /\ \A k \in 1..Len(stores) :
                /\ stores[k].slot = k - 1
                /\ stores[k].data = Preset_to_bytes(presets[k]).value

\* overwrite=True over a pedal full of named presets
C20_Witness ==
    /\ pc = "restore_done"
    /\ overwrite
    /\ CompleteBackup
    /\ Len(stores) = MBF_PRESET_COUNT
    /\ \A k \in 1..Len(stores) : stores[k].replaced = <<77, 121, 32, 84, 111, 110, 101>>
    /\ outcome = Ok([restored |-> TRUE, preset_count |-> MBF_PRESET_COUNT])

\* overwrite=False over a pedal whose slots all have an empty name, the
\* backup entries named
C20_EmptyPedalWitness ==
    /\ pc = "restore_done"
    /\ ~overwrite
    /\ CompleteBackup
    /\ timeouts = 0
    /\ \A k \in 1..Len(presets) : presets[k].name # <<>>
    /\ Len(stores) = MBF_PRESET_COUNT
    /\ \A k \in 1..Len(stores) : stores[k].replaced = <<>>
    /\ outcome = Ok([restored |-> TRUE, preset_count |-> MBF_PRESET_COUNT])


----------------------------------------------------------------------------
(* Raw input scenarios: parse_frame is called with a byte string, and      *)
(* parse_chunked_frames with a list of byte strings, that no builder need  *)
(* have produced: reports with one byte changed, truncated reports, empty  *)
(* strings and length prefixes that overrun the report.                    *)

\* how many byte strings the drawn lists hold at most
MaxReports == 2

\* the codec variables while no frame is being built
CodecIdle ==
    /\ cmd = 0
    /\ payload = <<>>
    /\ reports = <<>>
    /\ rx = <<>>
    /\ frame = None

SetByte(s, i, v) == [k \in 1..Len(s) |-> IF k = i + 1 THEN v ELSE s[k]]

WellFormedReports == {build_frame(c, pl) : c \in {16, 166}, pl \in {<<>>, <<2>>}}

RawReports ==
    WellFormedReports
        \cup {SetByte(r, i, v) : r \in WellFormedReports, i \in 0..8, v \in {0, 6, 7, 255}}
        \cup {Slice(r, 0, n) : r \in WellFormedReports, n \in 0..9}

\* the pieces the drawn lists are made of
RawChunks ==
    {<<>>, <<0>>, <<255, 170, 85>>, <<4, 170, 85, 1, 0>>, <<3, 16, 239, 222, 9, 9>>,
     build_frame(16, <<>>), SetByte(build_frame(16, <<>>), 0, 200)}
        \cup {chunk_reports(full_message(131, Pattern(60, 1, 1)))[k] : k \in 1..2}

RECURSIVE ListsUpTo(_, _)
ListsUpTo(S, n) ==
    IF n = 0 THEN {<<>>}
    ELSE LET shorter == ListsUpTo(S, n - 1)
         IN  shorter \cup {Append(l, x) : l \in shorter, x \in S}

RawCalls ==
    {[fn |-> "parse_frame", data |-> d] : d \in RawReports}
        \cup {[fn |-> "parse_chunked_frames", reports |-> l] :
                l \in ListsUpTo(RawChunks, MaxReports)}

InitRaw ==
    /\ pc = "init"
    /\ call \in RawCalls
    /\ ret = None
    /\ CodecIdle
    /\ PresetIdle
    /\ ServerIdle
    /\ ToolsIdle

CallParseFrame ==
    /\ pc = "init"
    /\ call.fn = "parse_frame"
    /\ ret' = IF parse_frame_raises(call.data) THEN Raise("IndexError")
               ELSE Ok(parse_frame(call.data))
    /\ pc' = "returned"
    /\ UNCHANGED <<call, reports, frame>>
    /\ UNCHANGED notCommands

CallParseChunkedFrames ==
    /\ pc = "init"
    /\ call.fn = "parse_chunked_frames"
    /\ ret' = IF parse_chunked_frames_raises(call.reports) THEN Raise("IndexError")
               ELSE Ok(parse_chunked_frames(call.reports))
    /\ pc' = "returned"
    /\ UNCHANGED <<call, reports, frame>>
    /\ UNCHANGED notCommands

NextRaw ==
    \/ CallParseFrame
    \/ CallParseChunkedFrames

SpecRaw == InitRaw /\ [][NextRaw]_vars

----------------------------------------------------------------------------
(* Claims about the parsers on arbitrary input, checked under SpecRaw *)

\* the five conditions under which a report is to be rejected
Rejected(data) ==
    \/ Len(data) < 8
    \/ At(data, 0) < 7
    \/ Slice(data, 1, 3) # <<170, 85>>
    \/ from_bytes_little(Slice(data, 3, 5)) < 1
    \/ LET n == from_bytes_little(Slice(data, 3, 5))
       IN  crc16(Slice(data, 5, 5 + n)) # from_bytes_little(Slice(data, 5 + n, 7 + n))

\* C11: parse_frame and parse_chunked_frames never raise and return a Frame
\* or None for every byte string and every list of byte strings; parse_frame
\* returns None when the report is shorter than 8 bytes, when byte 0 is below
\* 7, when bytes 1-2 are not AA 55, when the little-endian body size in bytes
\* 3-4 is below 1, or when the checksum recomputed over command and payload
\* differs from the two bytes that follow them.
C11_ParsersAreTotal ==
    pc = "returned" =>
        /\ ret.tag = "ok"
        /\ ret.value.tag \in {"None", "Frame"}
        /\ (call.fn = "parse_frame" /\ Rejected(call.data)) => ret.value = None

C11_Witness ==
    /\ pc = "returned"
    /\ call.fn = "parse_frame"
    /\ call.data = SetByte(build_frame(166, <<2>>), 0, 6)
    /\ ret = Ok(None)

\* C27: parse_frame returns a Frame only when the whole declared body and
\* both checksum bytes lie inside the report and inside the declared
\* meaningful length: body_size + 6 <= byte 0 and body_size + 7 <=
\* len(report), so the payload has exactly body_size - 1 bytes.
C27_FrameLiesInsideReport ==
    (pc = "returned" /\ call.fn = "parse_frame" /\ ret.tag = "ok"
        /\ ret.value.tag = "Frame") =>
        LET data      == call.data
            body_size == from_bytes_little(Slice(data, 3, 5))
        IN  /\ body_size + 6 <= At(data, 0)
            /\ body_size + 7 <= Len(data)
            /\ Len(ret.value.payload) = body_size - 1


----------------------------------------------------------------------------
(* Short buffer scenarios: Preset.from_bytes, or the from_bytes of one     *)
(* module class, is called with a buffer cut off before, at or after the   *)
(* fixed size.                                                             *)

\* 512-byte records of presets with a 14-character name
SampleRecords ==
    {Preset_to_bytes(MkPreset(Pattern(14, 65, 1), <<8, 7, 6, 5, 4, 3, 2, 1, 0, 9>>,
                              sd, 0, 0, Gen(sd, 5))).value : sd \in FieldSeeds}

\* where the preset buffers are cut: inside the order, the name, the
\* modules and the tail, and at and past the full size
PresetCuts == {0, 1, 9, 10, 12, 13, 20, 26, 27, 39, 40, 100, 179, 180, 511, 512, 513}

\* the offset of each module in the record
module_offset(name) ==
    CASE name = "fx"     -> OFF_FX
      [] name = "od"     -> OFF_OD
      [] name = "amp"    -> OFF_AMP
      [] name = "cab"    -> OFF_CAB
      [] name = "ns"     -> OFF_NS
      [] name = "eq"     -> OFF_EQ
      [] name = "mod"    -> OFF_MOD
      [] name = "delay"  -> OFF_DELAY
      [] name = "reverb" -> OFF_REVERB

ShortCalls ==
    {[fn |-> "Preset.from_bytes", data |-> Slice(r \o <<9>>, 0, n)] :
        r \in SampleRecords, n \in PresetCuts}
    \cup UNION {{[fn |-> "module.from_bytes", module |-> nm,
                  data |-> Slice(Slice(r, module_offset(nm), PRESET_SIZE), 0, n)] :
                    r \in SampleRecords, n \in 0..(module_size(nm) + 1)} :
                nm \in ModuleFields}

InitShort ==
    /\ pc = "init"
    /\ call \in ShortCalls
    /\ ret = None
    /\ CodecIdle
    /\ PresetIdle
    /\ ServerIdle
    /\ ToolsIdle

CallPresetFromBytes ==
    /\ pc = "init"
    /\ call.fn = "Preset.from_bytes"
    /\ ret' = Ok(Preset_from_bytes(call.data))
    /\ pc' = "returned"
    /\ UNCHANGED <<call, reports, frame>>
    /\ UNCHANGED notCommands

CallModuleFromBytes ==
    /\ pc = "init"
    /\ call.fn = "module.from_bytes"
    /\ ret' = Ok(module_from_bytes(call.module, call.data))
    /\ pc' = "returned"
    /\ UNCHANGED <<call, reports, frame>>
    /\ UNCHANGED notCommands

NextShort ==
    \/ CallPresetFromBytes
    \/ CallModuleFromBytes

SpecShort == InitShort /\ [][NextShort]_vars

----------------------------------------------------------------------------
(* Claims about decoding short buffers, checked under SpecShort *)

\* the buffer followed by zero bytes up to the given size
RightPadded(data, size) == data \o Zeros(size - Len(data))

\* C16: Preset.from_bytes and every module's from_bytes accept a buffer
\* shorter than the fixed size (512 for a preset, SIZE for a module) without
\* error and return what decoding the buffer right-padded with zero bytes to
\* the fixed size returns.
C16_ShortBufferIsZeroPadded ==
    pc = "returned" =>
        /\ (call.fn = "Preset.from_bytes" /\ Len(call.data) < 512) =>
              ret = Ok(Preset_from_bytes(RightPadded(call.data, 512)))
        /\ (call.fn = "module.from_bytes" /\ Len(call.data) < module_size(call.module)) =>
              ret = Ok(module_from_bytes(call.module,
                                         RightPadded(call.data, module_size(call.module))))

C16_Witness ==
    /\ pc = "returned"
    /\ call.fn = "module.from_bytes"
    /\ call.module = "delay"
    /\ Len(call.data) = 6
    /\ At(call.data, 5) = 169
    /\ ret.value.time_ms = 169
    /\ ret.value.reserved = Zeros(7)

\* the preset case of C16: a record cut inside the name field
C16_PresetWitness ==
    /\ pc = "returned"
    /\ call.fn = "Preset.from_bytes"
    /\ Len(call.data) = 20
    /\ ret.value.name = Pattern(8, 65, 1)
    /\ ret.value.fx.reserved = Zeros(6)


----------------------------------------------------------------------------
(* File scenarios: export_mo or export_mbf writes a file for drawn         *)
(* presets, and the file written is imported again; import_mo or           *)
(* import_mbf reads a drawn file, which may be cut off at any length.      *)

\* presets with byte-valued fields, a short and a 20-character name, and
\* reserved fields that are full or fall short
FilePresets ==
    {MkPreset(nm, Pattern(10, 0, 1), <<77, 29>>, rs, 0, 222) :
        nm \in {<<84, 101, 115, 116>>, Pattern(20, 97, 1)}, rs \in 0..MaxShort}

\* .mo files: an exported preset and a file without any zero region, cut
MoFiles ==
    {Slice(f, 0, n) :
        f \in {export_mo(MkPreset(<<84, 101, 115, 116>>, Pattern(10, 0, 1),
                                  <<77, 29>>, 0, 0, 222)).value \o <<7, 7>>,
               Pattern(2050, 1, 1)},
        n \in {0, 1, 511, 512, 1023, 1024, 1025, 2047, 2048, 2050}}

\* the size of the header of a .mbf file
MbfHeaderSize == MBF_MANUFACTURER_SIZE + MBF_MODEL_NAME_SIZE + 4

\* a complete backup of presets with full-width fields, one entry longer
\* than a backup file is
LongBackup ==
    export_mbf([i \in 1..MBF_PRESET_COUNT |->
                   MkPreset(<<65 + i>>, Pattern(10, 0, 1), <<77, 29>>, 0, 0, 222)]).value
        \o Pattern(MBF_PRESET_ENTRY_SIZE + 1, 3, 1)

\* .mbf files: the long backup cut inside the header, at and around every
\* entry boundary, and not at all
MbfFiles ==
    {Slice(LongBackup, 0, n) : n \in {0, 1, 43, 44, 45, Len(LongBackup)}}
        \cup {Slice(LongBackup, 0, MbfHeaderSize + k * MBF_PRESET_ENTRY_SIZE + d) :
                k \in 1..(MBF_PRESET_COUNT + 1), d \in {-1, 0, 1}}

FileCalls ==
    {[fn |-> "export_mo", preset |-> p] : p \in FilePresets}
        \cup {[fn |-> "import_mo", data |-> d] : d \in MoFiles}
        \cup {[fn |-> "export_mbf", presets |-> l] :
                l \in ListsUpTo(FilePresets, MBF_PRESET_COUNT)}
        \cup {[fn |-> "import_mbf", data |-> d] : d \in MbfFiles}

InitFile ==
    /\ pc = "init"
    /\ call \in FileCalls
    /\ ret = None
    /\ CodecIdle
    /\ PresetIdle
    /\ ServerIdle
    /\ ToolsIdle

CallExportMo ==
    /\ pc = "init"
    /\ call.fn = "export_mo"
    /\ ret' = export_mo(call.preset)
    /\ pc' = "returned"
    /\ UNCHANGED <<call, reports, frame>>
    /\ UNCHANGED notCommands

CallImportMo ==
    /\ pc = "init"
    /\ call.fn = "import_mo"
    /\ ret' = import_mo(call.data)
    /\ pc' = "returned"
    /\ UNCHANGED <<call, reports, frame>>
    /\ UNCHANGED notCommands

CallExportMbf ==
    /\ pc = "init"
    /\ call.fn = "export_mbf"
    /\ ret' = export_mbf(call.presets)
    /\ pc' = "returned"
    /\ UNCHANGED <<call, reports, frame>>
    /\ UNCHANGED notCommands

CallImportMbf ==
    /\ pc = "init"
    /\ call.fn = "import_mbf"
    /\ ret' = Ok(import_mbf(call.data))
    /\ pc' = "returned"
    /\ UNCHANGED <<call, reports, frame>>
    /\ UNCHANGED notCommands

\* the file export_mo wrote, read by import_mo
ReimportMo ==
    /\ pc = "returned"
    /\ call.fn = "export_mo"
    /\ ret.tag = "ok"
    /\ decoded' = import_mo(ret.value)
    /\ pc' = "reimported"
    /\ UNCHANGED <<call, ret, reports, frame, preset, encoded, modbytes>>
    /\ UNCHANGED <<codecVars, serverVars, toolVars>>

\* the file export_mbf wrote, read by import_mbf
ReimportMbf ==
    /\ pc = "returned"
    /\ call.fn = "export_mbf"
    /\ ret.tag = "ok"
    /\ decoded' = Ok(import_mbf(ret.value))
    /\ pc' = "reimported"
    /\ UNCHANGED <<call, ret, reports, frame, preset, encoded, modbytes>>
    /\ UNCHANGED <<codecVars, serverVars, toolVars>>

NextFile ==
    \/ CallExportMo
    \/ CallImportMo
    \/ CallExportMbf
    \/ CallImportMbf
    \/ ReimportMo
    \/ ReimportMbf

SpecFile == InitFile /\ [][NextFile]_vars

----------------------------------------------------------------------------
(* Claims about the file formats, checked under SpecFile *)

\* a preset whose record has the fixed size of 512 bytes
FullWidth(p) == Len(Preset_to_bytes(p).value) = PRESET_SIZE

\* what C18 says of the file export_mo wrote for preset p
MoLayout(file, p) ==
    /\ Len(file) = 2048
    /\ Slice(file, 0, 512) = Zeros(512)
    /\ Slice(file, 512, 1024) = Preset_to_bytes(p).value
    /\ Slice(file, 1024, 2048) = Zeros(1024)

\* what C18 says of import_mo
MoImport ==
    (pc = "returned" /\ call.fn = "import_mo") =>
        IF Len(call.data) < 512 + 512 THEN ret = Raise("ValueError")
        ELSE ret = Ok(Preset_from_bytes(Slice(call.data, 512, 1024)))

MoRoundTrip ==
    (pc = "reimported" /\ call.fn = "export_mo") =>
        decoded = Ok(Preset_from_bytes(Preset_to_bytes(call.preset).value))

\* C18: export_mo always writes exactly 2048 bytes in which bytes [0,0x200)
\* are zero, bytes [0x200,0x400) equal preset.to_bytes() and bytes
\* [0x400,0x800) are zero; import_mo raises ValueError for any file shorter
\* than 0x200+512 bytes and otherwise decodes the preset from bytes
\* [0x200,0x400), so import_mo(export_mo(p)) equals
\* Preset.from_bytes(p.to_bytes()).
C18_MoFileLayout ==
    /\ (pc \in {"returned", "reimported"} /\ call.fn = "export_mo") =>
          (ret.tag = "ok" /\ MoLayout(ret.value, call.preset))
    /\ MoImport
    /\ MoRoundTrip

\* the same for presets whose record has 512 bytes
C18_FullWidthMoFileLayout ==
    /\ (pc \in {"returned", "reimported"} /\ call.fn = "export_mo"
            /\ FullWidth(call.preset)) =>
          (ret.tag = "ok" /\ MoLayout(ret.value, call.preset))
    /\ MoImport
    /\ MoRoundTrip


\* the names of a list of presets
Names(ps) == [i \in 1..Len(ps) |-> ps[i].name]

\* what C19 says of a file export_mbf wrote for the list ps and of its import
MbfRoundTrip(ps) ==
    /\ ret.tag = "ok"
    /\ Len(ret.value) = 44 + MBF_PRESET_COUNT * 546
    /\ pc = "reimported" =>
          /\ Len(decoded.value) = MBF_PRESET_COUNT
          /\ \A i \in 1..MBF_PRESET_COUNT :
                decoded.value[i].name = IF i <= Len(ps) THEN ps[i].name ELSE <<>>

\* C19: export_mbf of N presets, N no more than the number of entries of a
\* backup file (199), writes exactly 44 + 199*546 bytes, and import_mbf of
\* that file returns 199 presets whose first N names equal the input names
\* and whose remaining names are empty; for a file of any length L
\* import_mbf returns min(199, floor((L-44)/546)) presets and does not raise.
C19_MbfRoundTrip ==
    /\ (pc \in {"returned", "reimported"} /\ call.fn = "export_mbf") =>
          MbfRoundTrip(call.presets)
    /\ (pc = "returned" /\ call.fn = "import_mbf") =>
          /\ ret.tag = "ok"
          /\ Len(ret.value) = Min(MBF_PRESET_COUNT, (Len(call.data) - 44) \div 546)

\* the same for presets whose record has 512 bytes and whose name fits the
\* name field, and for files that hold at least the header
C19_FullWidthMbfRoundTrip ==
    /\ (pc \in {"returned", "reimported"} /\ call.fn = "export_mbf"
            /\ \A i \in 1..Len(call.presets) :
                   FullWidth(call.presets[i]) /\ Len(call.presets[i].name) <= 14) =>
          MbfRoundTrip(call.presets)
    /\ (pc = "returned" /\ call.fn = "import_mbf") =>
          /\ ret.tag = "ok"
          /\ Len(ret.value) =
                Max(0, Min(MBF_PRESET_COUNT, (Len(call.data) - 44) \div 546))

\* a backup of presets with full-width fields and short names comes back
C19_FullWidthReached ==
    /\ pc = "reimported"
    /\ call.fn = "export_mbf"
    /\ Len(call.presets) = 1
    /\ FullWidth(call.presets[1])
    /\ Names(decoded.value) =
          [i \in 1..MBF_PRESET_COUNT |-> IF i = 1 THEN <<84, 101, 115, 116>> ELSE <<>>]

----------------------------------------------------------------------------
(* transport/usb_connection.py: the USBConnection object.  A call of       *)
(* write, read, send_and_receive or send_chunked_and_receive is made on a  *)
(* connection that is open or closed; every report handed to the backend   *)
(* and every read of the backend is entered in sent.                       *)

\* USBConnection.write up to the backend call
USBConnection_write(conn, data) ==
    IF ~conn.connected THEN Raise("ConnectionError")
    ELSE IF Len(data) # HID_REPORT_SIZE THEN Raise("ValueError")
    ELSE Ok(Len(data))

\* what the backend's read gives: nothing before the timeout (or an
\* exception, which read turns into None), or a report
ReadResults ==
    {[tag |-> "timeout"],
     [tag |-> "report", data |-> build_frame(166, <<2>>)],
     [tag |-> "report", data |-> SetByte(build_frame(166, <<2>>), 7, 0)]}

\* USBConnection.read, given what the backend's read gives
USBConnection_read(conn, got) ==
    IF ~conn.connected THEN Raise("ConnectionError")
    ELSE IF got.tag = "timeout" THEN Ok(None)
    ELSE Ok(got.data)

\* the entries of sent
Written(data) == [op |-> "write", data |-> data]

WasRead(got) == [op |-> "read", data |-> IF got.tag = "report" THEN got.data ELSE <<>>]

\* the loop of send_chunked_and_receive taking the reports last to first
next_frame_reversed(frames, i) == At(frames, Len(frames) - 1 - i)

\* the report the loop of send_chunked_and_receive writes in round i
next_frame(frames, i) == At(frames, i)

\* two well-formed reports, one a byte short, and the 65 bytes build_frame
\* returns for a 57-byte payload
TransportReports ==
    {build_frame(16, <<>>), build_frame(166, <<2>>),
     Slice(build_frame(16, <<>>), 0, HID_REPORT_SIZE - 1),
     build_frame(131, Pattern(57, 1, 1))}

TransportCalls ==
    {[fn |-> "write", data |-> r] : r \in TransportReports}
        \cup {[fn |-> "read"]}
        \cup {[fn |-> "send_and_receive", data |-> r] : r \in TransportReports}
        \cup {[fn |-> "send_chunked_and_receive", frames |-> l] :
                l \in ListsUpTo(TransportReports, MaxReports)}

\* the reports the call is to write, in order
FramesOf(c) ==
    IF c.fn = "send_chunked_and_receive" THEN c.frames
    ELSE IF c.fn \in {"send_and_receive", "write"} THEN <<c.data>>
    ELSE <<>>

InitTransport ==
    /\ pc = "init"
    /\ call \in TransportCalls
    /\ ret = None
    /\ connection \in {[connected |-> TRUE], [connected |-> FALSE]}
    /\ sent = <<>>
    /\ preset_cache = <<>>
    /\ calls = 0
    /\ CodecIdle
    /\ PresetIdle
    /\ ServerIdle

\* write(data); the backend's write can raise IOError
CallWrite ==
    /\ pc = "init"
    /\ call.fn = "write"
    /\ \E done \in {USBConnection_write(connection, call.data)} :
          IF done.tag = "raise"
          THEN ret' = done /\ UNCHANGED sent
          ELSE \/ ret' = done /\ sent' = Append(sent, Written(call.data))
               \/ ret' = Raise("IOError") /\ UNCHANGED sent
    /\ pc' = "returned"
    /\ UNCHANGED <<call, connection, preset_cache, calls, reports, frame>>
    /\ UNCHANGED <<codecVars, presetVars, serverVars>>

\* read()
CallRead ==
    /\ pc = "init"
    /\ call.fn = "read"
    /\ \E got \in ReadResults :
          /\ ret' = USBConnection_read(connection, got)
          /\ sent' = IF connection.connected THEN Append(sent, WasRead(got)) ELSE sent
    /\ pc' = "returned"
    /\ UNCHANGED <<call, connection, preset_cache, calls, reports, frame>>
    /\ UNCHANGED <<codecVars, presetVars, serverVars>>

\* self.write(data) of send_and_receive, and one round of the loop of
\* send_chunked_and_receive
SendWrite ==
    /\ pc \in {"init", "sending"}
    /\ call.fn \in {"send_and_receive", "send_chunked_and_receive"}
    /\ Len(sent) < Len(FramesOf(call))
    /\ \E data \in {next_frame(FramesOf(call), Len(sent))} :
       \E done \in {USBConnection_write(connection, data)} :
          IF done.tag = "raise"
          THEN ret' = done /\ pc' = "returned" /\ UNCHANGED sent
          ELSE \/ sent' = Append(sent, Written(data)) /\ pc' = "sending"
                    /\ UNCHANGED ret
               \/ ret' = Raise("IOError") /\ pc' = "returned" /\ UNCHANGED sent
    /\ UNCHANGED <<call, connection, preset_cache, calls, reports, frame>>
    /\ UNCHANGED <<codecVars, presetVars, serverVars>>

\* response = self.read(timeout_ms), and the return of None or of
\* parse_frame(response)
SendRead ==
    /\ pc \in {"init", "sending"}
    /\ call.fn \in {"send_and_receive", "send_chunked_and_receive"}
    /\ Len(sent) >= Len(FramesOf(call))
    /\ \E got \in ReadResults :
       \E response \in {USBConnection_read(connection, got)} :
          /\ ret' = IF response.tag = "raise" THEN response
                    ELSE IF response.value = None THEN Ok(None)
                    ELSE Ok(parse_frame(response.value))
          /\ sent' = IF connection.connected THEN Append(sent, WasRead(got)) ELSE sent
    /\ pc' = "returned"
    /\ UNCHANGED <<call, connection, preset_cache, calls, reports, frame>>
    /\ UNCHANGED <<codecVars, presetVars, serverVars>>

NextTransport ==
    \/ CallWrite
    \/ CallRead
    \/ SendWrite
    \/ SendRead

SpecTransport == InitTransport /\ [][NextTransport]_vars

----------------------------------------------------------------------------
(* Claims about the transport, checked under SpecTransport *)

\* C23: send_chunked_and_receive writes every report of the list exactly
\* once, in list order, and performs its single read only after the last
\* report has been written; send_and_receive performs exactly one write
\* followed by at most one read.  At every moment of the call the I/O done so
\* far is a prefix of: the reports in list order, then one read; a call that
\* returns has done all of it.
C23_WritesInOrderThenOneRead ==
    call.fn \in {"send_and_receive", "send_chunked_and_receive"} =>
        LET frames == FramesOf(call)
        IN  /\ Len(sent) <= Len(frames) + 1
            /\ \A k \in 1..Len(sent) :
                  IF k <= Len(frames)
                  THEN sent[k] = Written(frames[k])
                  ELSE sent[k].op = "read"
            /\ (pc = "returned" /\ ret.tag = "ok") => Len(sent) = Len(frames) + 1

\* a list of two different reports was sent and the answer parsed
C23_Witness ==
    /\ pc = "returned"
    /\ call.fn = "send_chunked_and_receive"
    /\ call.frames = <<build_frame(166, <<2>>), build_frame(16, <<>>)>>
    /\ Len(sent) = 3
    /\ sent[3].op = "read"
    /\ ret = Ok(Frame(166, <<2>>))

\* send_and_receive wrote its report and the read timed out
C23_SingleWitness ==
    /\ pc = "returned"
    /\ call.fn = "send_and_receive"
    /\ sent = <<Written(call.data), WasRead([tag |-> "timeout"])>>
    /\ ret = Ok(None)

----------------------------------------------------------------------------
(* server.py: the tools, called one after another on the module globals   *)
(* _connection and _preset_cache.  A tool call is one step; sent holds the *)
(* transport calls the tool made, in order.  The pedal stays plugged in:   *)
(* open() can fail, the writes and reads of an open connection do not      *)
(* raise.  A read of a slot is answered as in Replies.  The reports of a   *)
(* store are not spelled out here (they are build_chunked_frames's, the    *)
(* subject of the codec scenarios): an entry of sent for a store holds the *)
(* message the reports carry, and the pedal takes the slot and the record  *)
(* from it.                                                                *)

\* how many tool calls a run makes at most
MaxCalls == 4

\* _get_connection raising only while there is no USBConnection object
get_connection_raises_without_object(conn) == conn = None

\* _get_connection raises RuntimeError
get_connection_raises(conn) == conn = None \/ ~conn.connected

\* the exception that ends a device-touching tool before any I/O: that of
\* _get_connection, or that of write and read on a closed connection
not_connected(conn) ==
    IF get_connection_raises(conn) THEN Raise("RuntimeError")
    ELSE IF ~conn.connected THEN Raise("ConnectionError")
    ELSE None

\* build_store_preset up to the framing: the exception it raises, or the
\* message its reports carry
store_message(slot, preset_data) ==
    IF ~(0 <= slot /\ slot <= 199) THEN Raise("ValueError")
    ELSE IF Len(preset_data) # 512 THEN Raise("ValueError")
    ELSE Ok(Frame(Command.STORE_PATCH, <<slot>> \o preset_data))

\* the slots of the pedal after it received the reports of a message
pedal_after(dev, fr) ==
    IF fr.command # Command.STORE_PATCH \/ Len(fr.payload) < 1 THEN dev
    ELSE IF At(fr.payload, 0) >= Len(dev) THEN dev
    ELSE [dev EXCEPT ![At(fr.payload, 0) + 1] = Slice(fr.payload, 1, Len(fr.payload))]

\* the entries of sent: conn.send_and_receive(data) that returned response,
\* and conn.send_chunked_and_receive(frames), the reports carrying message
Exchanged(data, response) ==
    [op |-> "send_and_receive", data |-> data, response |-> response]

Stored(message) == [op |-> "send_chunked_and_receive", message |-> message]

\* the slot and the record a store names
StoredSlot(e) == At(e.message.payload, 0)

StoredData(e) == Slice(e.message.payload, 1, Len(e.message.payload))

\* conn.send_and_receive(build_read_preset(slot)) that returned response
ReadOf(slot, response) == Exchanged(build_read_preset(slot).value, response)

\* _preset_cache[slot] = p
Put(cache, slot, p) ==
    [k \in (DOMAIN cache) \cup {slot} |-> IF k = slot THEN p ELSE cache[k]]

\* the record padded but not cut
ljust_512_uncut(data) == pad_to(data, 512)

\* parsed.data[:0x200].ljust(0x200, b"\x00")
ljust_512(data) == pad_to(Slice(data, 0, 512), 512)

\* the keys of Preset.get_module
ModuleNames == {"fx", "od", "amp", "cab", "ns", "eq", "mod", "delay", "reverb"}

\* the loop of set_preset over the items of effects, one item per parameter:
\* get_module raises for an unknown module, setattr is skipped for an
\* attribute the module does not have; the assignments made before the
\* exception stay
RECURSIVE apply_effects(_, _)
apply_effects(p, effects) ==
    IF effects = <<>> THEN [preset |-> p, raised |-> FALSE]
    ELSE LET item == Head(effects)
         IN  IF item.module \notin ModuleNames THEN [preset |-> p, raised |-> TRUE]
             ELSE apply_effects(
                      IF item.param \in DOMAIN p[item.module]
                      THEN [p EXCEPT ![item.module][item.param] = item.value]
                      ELSE p,
                      Tail(effects))

\* the preset set_preset builds from the one it starts from, and whether an
\* exception was raised on the way
merged(start, name, effects) ==
    apply_effects(IF name = None THEN start
                  ELSE [start EXCEPT !.name = Slice(name.value, 0, 14)],
                  effects)

\* the dataclass fields of each module class, SIZE and reserved left out
MODULE_FIELDS ==
    [fx     |-> <<"header", "enabled", "type", "q", "position", "peak", "level">>,
     od     |-> <<"header", "enabled", "type", "volume", "tone", "gain">>,
     amp    |-> <<"header", "enabled", "type", "amp_gain", "bass", "mid", "treble",
                  "presence", "master">>,
     cab    |-> <<"header", "enabled", "type", "mic", "center", "distance", "tube">>,
     ns     |-> <<"header", "enabled", "type", "attack", "release", "threshold">>,
     eq     |-> <<"header", "enabled", "type", "bands", "bands_extra">>,
     mod    |-> <<"header", "enabled", "type", "rate", "level", "depth", "param4",
                  "param5">>,
     delay  |-> <<"header", "enabled", "type", "level", "feedback", "time_ms",
                  "subdivision", "param5", "param6">>,
     reverb |-> <<"header", "enabled", "type", "pre_delay", "level", "decay", "tone">>]

\* fields.index(param)
index_of(fields, param) == (CHOOSE i \in 1..Len(fields) : fields[i] = param) - 1

\* the record of the preset the pedal of the tool scenarios holds in slot s
ToolRecord(s) ==
    Preset_to_bytes(MkPreset(<<80 + s>>, Pattern(10, 0, 1), <<3, 5>>, 0, 0, 41 + s)).value

\* the pedal of the tool scenarios, by what it answers a read of each slot
\* with: a preset with a name of its own, followed by two more bytes in slot
\* 0 and cut after 200 bytes in slot 1; a slot that was stored to holds the
\* 512 bytes stored
ToolDevice ==
    [i \in 1..MBF_PRESET_COUNT |->
        IF i = 1 THEN ToolRecord(0) \o <<7, 7>>
        ELSE IF i = 2 THEN Slice(ToolRecord(1), 0, 200)
        ELSE ToolRecord(i - 1)]

\* the .mo file and the .mbf file of the tool scenarios
ToolMoFile ==
    File(export_mo(MkPreset(<<84, 101, 115, 116>>, Pattern(10, 0, 1),
                            <<77, 29>>, 0, 0, 222)).value)

ToolMbfFile ==
    File(export_mbf([i \in 1..MBF_PRESET_COUNT |->
                        MkPreset(<<65 + i>>, Pattern(10, 0, 1), <<77, 29>>, 0, 0, 222)]).value)

\* the name and effects arguments of set_preset: a new name, an amp gain no
\* byte holds, and a new name with a module that does not exist
SetPresetArgs ==
    {[name |-> Ok(<<88>>), effects |-> <<>>],
     [name |-> None,
      effects |-> <<[module |-> "amp", param |-> "amp_gain", value |-> 300]>>],
     [name |-> Ok(<<88>>),
      effects |-> <<[module |-> "od", param |-> "gain", value |-> 9],
                    [module |-> "wah", param |-> "gain", value |-> 9]>>]}

InitTools ==
    /\ pc = "init"
    /\ call = NoCall
    /\ ret = None
    /\ ToolsIdle
    /\ connected = FALSE
    /\ device = ToolDevice
    /\ mbf_file = None
    /\ overwrite = FALSE
    /\ presets = <<>>
    /\ at_slot = 0
    /\ stores = <<>>
    /\ timeouts = 0
    /\ restored = 0
    /\ outcome = None
    /\ CodecIdle
    /\ PresetIdle

\* a tool can be called
Ready == pc \in {"init", "called"} /\ calls < MaxCalls

\* the state after the call c
Finish(c, out, log, dev, cache, conn) ==
    /\ call' = c
    /\ outcome' = out
    /\ sent' = log
    /\ device' = dev
    /\ preset_cache' = cache
    /\ connection' = conn
    /\ calls' = calls + 1
    /\ pc' = "called"
    /\ UNCHANGED <<connected, mbf_file, overwrite, presets, at_slot, stores,
                   timeouts, restored, ret, reports, frame>>
    /\ UNCHANGED <<codecVars, presetVars>>

\* a call that changes nothing and did no I/O
Fails(c, out) == Finish(c, out, <<>>, device, preset_cache, connection)

Error(text) == Ok([error |-> text])

SlotInRange(slot) == 0 <= slot /\ slot <= 199

Connect ==
    /\ Ready
    /\ \E c \in {[fn |-> "connect"]} :
          IF connection # None /\ connection.connected
          THEN Fails(c, Ok([connected |-> TRUE, message |-> "Already connected"]))
          ELSE \E opened \in BOOLEAN :
                  IF ~opened
                  THEN Finish(c, Raise("ConnectionError"), <<>>, device, preset_cache,
                              [connected |-> FALSE])
                  ELSE \E response \in {None, Frame(Command.IDENTIFY, <<>>)} :
                          Finish(c, Ok([connected |-> TRUE]),
                                 <<Exchanged(build_command(Command.IDENTIFY, <<>>),
                                             response)>>,
                                 device, preset_cache, [connected |-> TRUE])

Disconnect ==
    /\ Ready
    /\ Finish([fn |-> "disconnect"], Ok([disconnected |-> TRUE]), <<>>, device,
              preset_cache, None)

GetPreset(slot) ==
    /\ Ready
    /\ \E c \in {[fn |-> "get_preset", slot |-> slot]} :
          IF ~SlotInRange(slot) THEN Fails(c, Error("Slot must be 0-199"))
          ELSE IF not_connected(connection) # None THEN Fails(c, not_connected(connection))
          ELSE \E response \in Replies(slot) :
               \E log \in {<<ReadOf(slot, response)>>} :
                  IF response = None
                  THEN Finish(c, Error("No response from device"), log, device,
                              preset_cache, connection)
                  ELSE IF parse_preset_response(response) = None
                  THEN Finish(c, Error("Failed to parse preset response"), log, device,
                              preset_cache, connection)
                  ELSE \E p \in {Preset_from_bytes(parse_preset_response(response).data)} :
                          Finish(c, Ok([slot |-> slot, preset |-> p]), log, device,
                                 Put(preset_cache, slot, p), connection)

\* list_presets(slot, slot): one round of the loop
ListPresets(slot) ==
    /\ Ready
    /\ \E c \in {[fn |-> "list_presets", start |-> slot, end |-> slot]} :
          IF ~SlotInRange(slot) THEN Fails(c, Error("Slot range must be 0-199"))
          ELSE IF not_connected(connection) # None THEN Fails(c, not_connected(connection))
          ELSE \E response \in Replies(slot) :
               \E log \in {<<ReadOf(slot, response)>>} :
                  IF response = None \/ parse_preset_response(response) = None
                  THEN Finish(c, Ok([presets |-> <<[slot |-> slot, name |-> <<>>]>>]),
                              log, device, preset_cache, connection)
                  ELSE \E p \in {Preset_from_bytes(parse_preset_response(response).data)} :
                          Finish(c, Ok([presets |-> <<[slot |-> slot, name |-> p.name]>>]),
                                 log, device, Put(preset_cache, slot, p), connection)

\* set_preset from the preset it starts from (the cached object, or a new
\* one) on; log is the I/O done to get it
SetPresetFrom(c, start, log) ==
    \E m \in {merged(start, c.name, c.effects)} :
    \E cache \in {IF c.slot \in DOMAIN preset_cache
                  THEN Put(preset_cache, c.slot, m.preset) ELSE preset_cache} :
    \E data \in {IF m.raised THEN Raise("ValueError") ELSE Preset_to_bytes(m.preset)} :
    \E frames \in {IF data.tag = "raise" THEN data
                   ELSE store_message(c.slot, data.value)} :
       IF frames.tag = "raise"
       THEN Finish(c, Raise("ValueError"), log, device, cache, connection)
       ELSE Finish(c, Ok([stored |-> TRUE, slot |-> c.slot, name |-> m.preset.name]),
                   Append(log, Stored(frames.value)),
                   pedal_after(device, frames.value),
                   Put(preset_cache, c.slot, m.preset), connection)

SetPreset(slot, args) ==
    /\ Ready
    /\ \E c \in {[fn |-> "set_preset", slot |-> slot, name |-> args.name,
                  effects |-> args.effects]} :
          IF ~SlotInRange(slot) THEN Fails(c, Error("Slot must be 0-199"))
          ELSE IF not_connected(connection) # None THEN Fails(c, not_connected(connection))
          ELSE IF slot \in DOMAIN preset_cache
          THEN SetPresetFrom(c, preset_cache[slot], <<>>)
          ELSE \E response \in Replies(slot) :
                  SetPresetFrom(c,
                      IF response # None /\ parse_preset_response(response) # None
                      THEN Preset_from_bytes(parse_preset_response(response).data)
                      ELSE Preset(<<>>),
                      <<ReadOf(slot, response)>>)

CopyPreset(from_slot, to_slot) ==
    /\ Ready
    /\ \E c \in {[fn |-> "copy_preset", from_slot |-> from_slot, to_slot |-> to_slot]} :
          IF ~SlotInRange(from_slot) \/ ~SlotInRange(to_slot)
          THEN Fails(c, Error("Slots must be 0-199"))
          ELSE IF not_connected(connection) # None THEN Fails(c, not_connected(connection))
          ELSE \E response \in Replies(from_slot) :
               \E log \in {<<ReadOf(from_slot, response)>>} :
                  IF response = None
                  THEN Finish(c, Error("Failed to read source preset"), log, device,
                              preset_cache, connection)
                  ELSE IF parse_preset_response(response) = None
                  THEN Finish(c, Error("Failed to parse source preset"), log, device,
                              preset_cache, connection)
                  ELSE \E data \in {ljust_512(parse_preset_response(response).data)} :
                       \E frames \in {store_message(to_slot, data)} :
                          IF frames.tag = "raise"
                          THEN Finish(c, frames, log, device, preset_cache, connection)
                          ELSE Finish(c, Ok([copied |-> TRUE, from |-> from_slot,
                                             to |-> to_slot]),
                                      Append(log, Stored(frames.value)),
                                      pedal_after(device, frames.value),
                                      preset_cache, connection)

SwapPresets(slot_a, slot_b) ==
    /\ Ready
    /\ \E c \in {[fn |-> "swap_presets", slot_a |-> slot_a, slot_b |-> slot_b]} :
          IF ~SlotInRange(slot_a) \/ ~SlotInRange(slot_b)
          THEN Fails(c, Error("Slots must be 0-199"))
          ELSE IF not_connected(connection) # None THEN Fails(c, not_connected(connection))
          ELSE \E resp_a \in Replies(slot_a) :
               \E resp_b \in Replies(slot_b) :
               \E log \in {<<ReadOf(slot_a, resp_a), ReadOf(slot_b, resp_b)>>} :
                  IF resp_a = None \/ resp_b = None
                  THEN Finish(c, Error("Failed to read one or both presets"), log,
                              device, preset_cache, connection)
                  ELSE IF \/ parse_preset_response(resp_a) = None
                          \/ parse_preset_response(resp_b) = None
                  THEN Finish(c, Error("Failed to parse preset data"), log, device,
                              preset_cache, connection)
                  ELSE \E data_a \in {ljust_512(parse_preset_response(resp_a).data)} :
                       \E data_b \in {ljust_512(parse_preset_response(resp_b).data)} :
                       \E to_b \in {store_message(slot_b, data_a)} :
                       \E to_a \in {store_message(slot_a, data_b)} :
                          IF to_b.tag = "raise"
                          THEN Finish(c, to_b, log, device, preset_cache, connection)
                          ELSE IF to_a.tag = "raise"
                          THEN Finish(c, to_a, Append(log, Stored(to_b.value)),
                                      pedal_after(device, to_b.value), preset_cache,
                                      connection)
                          ELSE Finish(c, Ok([swapped |-> TRUE, slot_a |-> slot_a,
                                             slot_b |-> slot_b]),
                                      log \o <<Stored(to_b.value), Stored(to_a.value)>>,
                                      pedal_after(pedal_after(device, to_b.value),
                                                  to_a.value),
                                      preset_cache, connection)

ImportPreset(file, slot) ==
    /\ Ready
    /\ \E c \in {[fn |-> "import_preset", input_path |-> file, slot |-> slot]} :
          IF ~SlotInRange(slot) THEN Fails(c, Error("Slot must be 0-199"))
          ELSE IF file = None THEN Fails(c, Error("File not found"))
          ELSE IF import_mo(file.data).tag = "raise" THEN Fails(c, import_mo(file.data))
          ELSE IF not_connected(connection) # None THEN Fails(c, not_connected(connection))
          ELSE \E data \in {Preset_to_bytes(import_mo(file.data).value)} :
               \E frames \in {IF data.tag = "raise" THEN data
                              ELSE store_message(slot, data.value)} :
                  IF frames.tag = "raise" THEN Fails(c, frames)
                  ELSE Finish(c, Ok([imported |-> TRUE, slot |-> slot]),
                              <<Stored(frames.value)>>,
                              pedal_after(device, frames.value),
                              preset_cache, connection)

\* the loop of restore_backup(input_path, overwrite=True) from slot on: the
\* pedal and the I/O after it, and whether to_bytes or the builder raised
RECURSIVE restore_from(_, _, _, _)
restore_from(entries, slot, dev, log) ==
    IF slot >= Len(entries) THEN [device |-> dev, sent |-> log, raised |-> FALSE]
    ELSE LET data   == Preset_to_bytes(At(entries, slot))
             frames == IF data.tag = "raise" THEN data
                       ELSE store_message(slot, data.value)
         IN  IF frames.tag = "raise" THEN [device |-> dev, sent |-> log, raised |-> TRUE]
             ELSE restore_from(entries, slot + 1, pedal_after(dev, frames.value),
                               Append(log, Stored(frames.value)))

RestoreBackup(file) ==
    /\ Ready
    /\ \E c \in {[fn |-> "restore_backup", input_path |-> file, overwrite |-> TRUE]} :
          IF file = None THEN Fails(c, Error("File not found"))
          ELSE IF not_connected(connection) # None THEN Fails(c, not_connected(connection))
          ELSE \E done \in {restore_from(import_mbf(file.data), 0, device, <<>>)} :
                  Finish(c, IF done.raised THEN Raise("ValueError")
                            ELSE Ok([restored |-> TRUE, preset_count |-> Len(done.sent)]),
                         done.sent, done.device, preset_cache, connection)

SetEffectParam(module, param, value) ==
    /\ Ready
    /\ \E c \in {[fn |-> "set_effect_param", module |-> module, param |-> param,
                  value |-> value]} :
          IF module \notin DOMAIN MODULE_FIELDS THEN Fails(c, Error("Unknown module"))
          ELSE IF \A i \in 1..Len(MODULE_FIELDS[module]) : MODULE_FIELDS[module][i] # param
          THEN Fails(c, Error("Unknown param"))
          ELSE IF not_connected(connection) # None THEN Fails(c, not_connected(connection))
          ELSE \E param_index \in {index_of(MODULE_FIELDS[module], param)} :
               \E data \in {build_effect_param(module, param_index, value % 256)} :
                  IF data.tag = "raise" THEN Fails(c, data)
                  ELSE IF USBConnection_write(connection, data.value).tag = "raise"
                  THEN Fails(c, USBConnection_write(connection, data.value))
                  ELSE Finish(c, Ok([module |-> module, param |-> param, value |-> value]),
                              <<Written(data.value)>>, device, preset_cache, connection)

\* the tools called on slot 1, with slot 0 as the slot copied from or swapped
\* with, and on a slot beyond the pedal's 200
NextTools ==
    \/ Connect
    \/ Disconnect
    \/ \E slot \in {1, 200} : GetPreset(slot)
    \/ ListPresets(1)
    \/ \E args \in SetPresetArgs : SetPreset(1, args)
    \/ CopyPreset(0, 1)
    \/ SwapPresets(0, 1)
    \/ \E file \in {None, ToolMoFile} : ImportPreset(file, 1)
    \/ RestoreBackup(ToolMbfFile)
    \/ SetEffectParam("delay", "subdivision", 7)

SpecTools == InitTools /\ [][NextTools]_vars

\* every name a module class has as a field, a name none has, and "reserved"
ParamNames ==
    UNION {{MODULE_FIELDS[m][i] : i \in 1..Len(MODULE_FIELDS[m])} : m \in DOMAIN MODULE_FIELDS}
        \cup {"reserved", "wet"}

\* a value a byte holds and one it does not
ParamValues == {7, 300}

\* set_effect_param called with no connection object, an open one, a closed one
InitParam ==
    /\ pc = "init"
    /\ call = NoCall
    /\ ret = None
    /\ connection \in {None, [connected |-> TRUE], [connected |-> FALSE]}
    /\ preset_cache = <<>>
    /\ sent = <<>>
    /\ calls = 0
    /\ connected = FALSE
    /\ device = ToolDevice
    /\ mbf_file = None
    /\ overwrite = FALSE
    /\ presets = <<>>
    /\ at_slot = 0
    /\ stores = <<>>
    /\ timeouts = 0
    /\ restored = 0
    /\ outcome = None
    /\ CodecIdle
    /\ PresetIdle

\* the calls of set_effect_param made one after the other
MaxParamCalls == 1

NextParam ==
    /\ calls < MaxParamCalls
    /\ \E module \in ModuleNames \cup {"wah"}, param \in ParamNames, value \in ParamValues :
          SetEffectParam(module, param, value)

SpecParam == InitParam /\ [][NextParam]_vars

----------------------------------------------------------------------------
(* Claims about the tools, checked under SpecTools *)

\* the tools that talk to the pedal
DeviceTools ==
    {"get_preset", "list_presets", "set_preset", "copy_preset", "swap_presets",
     "import_preset", "restore_backup", "set_effect_param"}

\* the call passes the tests a tool makes before it asks for the connection
ArgumentsValid(c) ==
    /\ c.fn \in {"get_preset", "set_preset", "import_preset"} => SlotInRange(c.slot)
    /\ c.fn \in {"import_preset", "restore_backup"} => c.input_path # None

IsOpen(conn) == conn # None /\ conn.connected

C28_ClosedObjectWitness ==
    /\ pc = "called"
    /\ call.fn = "copy_preset"
    /\ connection = [connected |-> FALSE]
    /\ sent = <<>>
    /\ outcome = Raise("RuntimeError")

\* data cut or filled with zero bytes to 512 bytes
Fit512(data) == [i \in 1..512 |-> IF i <= Len(data) THEN data[i] ELSE 0]

\* the entry is a read of slot s
IsReadOf(e, s) == e.op = "send_and_receive" /\ e.data = build_read_preset(s).value

\* the read was answered with a preset record
Answered(e) == e.response # None /\ parse_preset_response(e.response) # None

\* the entry is the store into slot s of what the read r returned, cut or
\* filled to 512 bytes
IsStoreOf(e, s, r) ==
    /\ e.op = "send_chunked_and_receive"
    /\ e.message.command = Command.STORE_PATCH
    /\ StoredSlot(e) = s
    /\ StoredData(e) = Fit512(parse_preset_response(r.response).data)

\* C30: swap_presets reads both slots before issuing any store, issues no
\* store if either read or parse fails, and otherwise issues exactly two
\* stores, the data read from slot_a to slot_b and the data read from slot_b
\* to slot_a, each truncated or zero-padded to 512 bytes; copy_preset issues
\* its single store only after a successful read of the source slot.
C30_SwapAndCopyStoreWhatTheyRead ==
    /\ (pc = "called" /\ call.fn = "swap_presets" /\ IsOpen(connection)) =>
          /\ Len(sent) >= 2
          /\ IsReadOf(sent[1], call.slot_a)
          /\ IsReadOf(sent[2], call.slot_b)
          /\ IF Answered(sent[1]) /\ Answered(sent[2])
             THEN /\ Len(sent) = 4
                  /\ IsStoreOf(sent[3], call.slot_b, sent[1])
                  /\ IsStoreOf(sent[4], call.slot_a, sent[2])
                  /\ outcome.tag = "ok" /\ "swapped" \in DOMAIN outcome.value
             ELSE /\ Len(sent) = 2
                  /\ outcome.tag = "ok" /\ "error" \in DOMAIN outcome.value
    /\ (pc = "called" /\ call.fn = "copy_preset" /\ IsOpen(connection)) =>
          /\ Len(sent) >= 1
          /\ IsReadOf(sent[1], call.from_slot)
          /\ IF Answered(sent[1])
             THEN /\ Len(sent) = 2
                  /\ IsStoreOf(sent[2], call.to_slot, sent[1])
             ELSE /\ Len(sent) = 1
                  /\ outcome.tag = "ok" /\ "error" \in DOMAIN outcome.value

\* a swap of a record longer than 512 bytes with one that is shorter
C30_Witness ==
    /\ pc = "called"
    /\ call.fn = "swap_presets"
    /\ Len(sent) = 4
    /\ Len(sent[1].response.payload) > 513
    /\ Len(sent[2].response.payload) < 513
    /\ device[call.slot_b + 1] = Slice(At(ToolDevice, 0), 0, 512)
    /\ device[call.slot_a + 1] = Slice(At(ToolDevice, 1), 0, 200) \o Zeros(312)

\* a copy whose read was not answered
C30_NoStoreWitness ==
    /\ pc = "called"
    /\ call.fn = "copy_preset"
    /\ IsOpen(connection)
    /\ sent = <<ReadOf(call.from_slot, None)>>
    /\ device = ToolDevice

\* the step is a call of set_preset on an open connection in which every
\* read made was answered with the slot's record
SetPresetStep ==
    /\ calls' = calls + 1
    /\ call'.fn = "set_preset"
    /\ IsOpen(connection')
    /\ \A k \in 1..Len(sent') :
          sent'[k].op = "send_and_receive" => Answered(sent'[k])

\* the store set_preset sent holds the record of the preset obtained by
\* merging the name and the effects given over the preset the pedal held in
\* the slot when set_preset was called
C21_StoredIsMergeOverDevice ==
    [][(SetPresetStep /\ outcome'.tag = "ok") =>
          /\ sent' # <<>>
          /\ sent'[Len(sent')].op = "send_chunked_and_receive"
          /\ StoredSlot(sent'[Len(sent')]) = call'.slot
          /\ StoredData(sent'[Len(sent')]) =
                Preset_to_bytes(merged(Preset_from_bytes(At(device, call'.slot)),
                                       call'.name, call'.effects).preset).value]_vars

\* C21: set_preset(slot, name, effects) stores the preset obtained by merging
\* the provided name and effect overrides over the preset that currently
\* exists in that slot on the device, which it reads first, after any
\* preceding sequence of tool calls.
C21_SetPresetMergesOverDevice ==
    [][(SetPresetStep /\ outcome'.tag = "ok") =>
          /\ Len(sent') = 2
          /\ IsReadOf(sent'[1], call'.slot)
          /\ sent'[2].op = "send_chunked_and_receive"
          /\ StoredSlot(sent'[2]) = call'.slot
          /\ StoredData(sent'[2]) =
                Preset_to_bytes(merged(Preset_from_bytes(At(device, call'.slot)),
                                       call'.name, call'.effects).preset).value]_vars

\* the entries of sent that are an answered read of slot s or a store to it
Touching(s) ==
    {k \in 1..Len(sent) :
        \/ IsReadOf(sent[k], s) /\ Answered(sent[k])
        \/ sent[k].op = "send_chunked_and_receive" /\ StoredSlot(sent[k]) = s}

\* the record the entry read or stored
RecordOf(e) ==
    IF e.op = "send_and_receive" THEN parse_preset_response(e.response).data
    ELSE StoredData(e)

\* C26: after any sequence of tool calls every entry _preset_cache[s] equals
\* the decoded content that this host most recently read from or stored to
\* device slot s: a call that read slot s or stored to it leaves in
\* _preset_cache[s], if s is a key, the decoded record of the last such
\* read or store.
C26_CacheIsLatestReadOrStored ==
    pc = "called" =>
        \A s \in DOMAIN preset_cache :
            Touching(s) # {} =>
                preset_cache[s] =
                    Preset_from_bytes(RecordOf(sent[CHOOSE k \in Touching(s) :
                                                       \A j \in Touching(s) : j <= k]))

\* C29: when set_preset fails before the store is sent (an unknown module
\* name in effects, or a field value that cannot be serialized), nothing is
\* written to the device and the preset cache entry for that slot holds the
\* same field values as before the call.
C29_FailedSetPresetChangesNothing ==
    [][(calls' = calls + 1 /\ call'.fn = "set_preset" /\ IsOpen(connection')
           /\ outcome' = Raise("ValueError")) =>
          /\ device' = device
          /\ \A k \in 1..Len(sent') : sent'[k].op # "send_chunked_and_receive"
          /\ preset_cache' = preset_cache]_vars

----------------------------------------------------------------------------
(* Claims about set_effect_param, checked under SpecParam *)

\* the position of each module in module_bytes
ModulePosition ==
    [fx |-> 1, od |-> 2, amp |-> 3, cab |-> 4, ns |-> 5, eq |-> 6, mod |-> 7,
     delay |-> 8, reverb |-> 9]

\* the serialized record of the module of a default preset with one parameter
\* set to v
record_with(module, param, v) ==
    module_bytes([Preset(<<>>) EXCEPT ![module][param] = v])[ModulePosition[module]].value

\* the byte offset of a parameter inside the module's serialized record: the
\* first byte of the record that to_bytes fills from the parameter
byte_offset(module, param) ==
    LET wide == param \in {"bands", "bands_extra"}
        a    == record_with(module, param, IF wide THEN Zeros(6) ELSE 0)
        b    == record_with(module, param,
                            IF wide THEN Pattern(6, 1, 0)
                            ELSE IF param = "time_ms" THEN 257 ELSE 1)
    IN  (CHOOSE i \in 1..Len(a) : a[i] # b[i] /\ \A j \in 1..(i - 1) : a[j] = b[j]) - 1

\* set_effect_param wrote its report
ParamWritten ==
    /\ pc = "called"
    /\ call.fn = "set_effect_param"
    /\ Len(sent) = 1
    /\ sent[1].op = "write"

\* the parameter index on the wire is the byte offset of the parameter
C25_IndexIsByteOffset ==
    ParamWritten =>
        At(parse_frame(sent[1].data).payload, 0) = byte_offset(call.module, call.param)

\* the value on the wire is the value supplied
C25_ValueIsSupplied ==
    ParamWritten => At(parse_frame(sent[1].data).payload, 1) = call.value

\* C25: for every module and every settable parameter name, the report
\* set_effect_param writes carries as parameter index the byte offset of the
\* parameter inside the module's serialized record (delay.subdivision at byte
\* 7, eq.bands_extra at byte 9) and as value the value supplied.
C25_ParamIndexAndValue == C25_IndexIsByteOffset /\ C25_ValueIsSupplied

\* the offsets the claim names, as to_bytes lays the records out
C25_OffsetsNamed ==
    byte_offset("delay", "subdivision") = 7 /\ byte_offset("eq", "bands_extra") = 9

====
